---- MODULE Spec2Model ----
(***************************************************************************)
(* diff_cover_ts: diff-aware violation aggregation.                        *)
(*                                                                         *)
(* The module models                                                       *)
(*   - BaseReportGenerator (src/src/report_generator.ts): the per-file     *)
(*     DiffViolations summaries, their lazy cache and the statistics       *)
(*     derived from them,                                                  *)
(*   - the exit status of the two command-line tools,                      *)
(*   - GitDiffReporter (diff_reporter.ts): the unified-diff parser and the *)
(*     left-to-right merge of the committed/staged/unstaged sources,       *)
(*   - the XML and LCOV coverage reporters and the QualityReporter         *)
(*     (src/src/violations_reporter.ts),                                   *)
(*   - the snippet ranges of class Snippet (src/src/snippets.ts).          *)
(***************************************************************************)
EXTENDS Integers, Sequences, FiniteSets, TLC

VARIABLES
    diff,                  \* BaseDiffReporter seen by the generator: changed path -> lines
    reporter,              \* BaseViolationReporter seen by the generator
    total_percent_float,   \* BaseReportGenerator._total_percent_float
    diff_violations_dict,  \* BaseReportGenerator._diff_violations_dict (None = null)
    result,                \* value returned by the last query of the generator
    tool,                  \* the command-line tool that runs, "" for a library use
    config,                \* the tool's config after getConfig
    exit_code,             \* the tool's exit status (None while it runs)
    _gitDiffTool,          \* GitDiffTool: the texts git prints, the untracked paths it
                           \* lists, and the tool's _untrackedCache
    files,                 \* the working tree: path -> number of lines
    _ignoreStaged,         \* GitDiffReporter._ignoreStaged
    _ignoreUnstaged,       \* GitDiffReporter._ignoreUnstaged
    _includeUntracked,     \* GitDiffReporter._includeUntracked
    _exclude,              \* BaseDiffReporter._exclude
    _diffDict,             \* GitDiffReporter._diffDict (None = null)
    commands               \* the external commands run so far (command_runner.ts)

aggVars == <<diff, reporter, total_percent_float, diff_violations_dict, result>>
cliVars == <<tool, config, exit_code>>
gitVars == <<_gitDiffTool, files, _ignoreStaged, _ignoreUnstaged, _includeUntracked,
             _exclude, _diffDict>>

runVars == <<commands>>

vars == <<aggVars, cliVars, gitVars, runVars>>

----------------------------------------------------------------------------
(* Bounds of the model.                                                    *)

MaxLine == 2        \* line numbers 1..MaxLine in the freely chosen inputs
MaxWide == 50       \* largest file of the prefix-shaped inputs
MaxHits == 1        \* largest execution count of a line in a coverage report
MaxDiffLen == 4     \* longest diff text of the freely chosen texts, in lines
MaxBody == 2        \* longest hunk body of the merged sources, in lines

Lines == 1..MaxLine
Files == {"a.ts", "b.ts"}

(* Optional values: null is the empty tuple, a present value a 1-tuple.    *)
None == <<>>
Some(x) == <<x>>
IsNone(o) == Len(o) = 0
Get(o) == o[1]

----------------------------------------------------------------------------
(* util.ts, toUnixPath: path.normalize, then '\' -> '/'.  The paths of     *)
(* this model are spelled the way git prints them ("a.ts"), on which the   *)
(* function changes nothing; the one spelling it rewrites is kept so that  *)
(* keys and queries can differ.                                            *)
toUnixPath(p) ==
    CASE p = "./a.ts"  -> "a.ts"
      [] p = ".\\a.ts" -> "a.ts"
      [] OTHER         -> p

----------------------------------------------------------------------------
(* violations_reporter.ts                                                  *)

(* class Violation: (line, message); a coverage violation has no message.  *)
Violation(line, message) == [line |-> line, message |-> message]
NoMessage == "null"

(* LcovCoverageReporter.violations: every line of the file's section of    *)
(* _lcovReport is measured, a line whose summed count is 0 is a violation; *)
(* a file without a section has neither.                                   *)
lcovInfo(report, srcPath) ==
    IF srcPath \notin DOMAIN report
    THEN <<{}, {}>>
    ELSE << {Violation(lineNo, NoMessage) :
                lineNo \in {l \in DOMAIN report[srcPath] : report[srcPath][l] = 0}},
            DOMAIN report[srcPath] >>

(* git_path.ts, GitPathTool.relativePath: the path unchanged while the     *)
(* tool has not been initialised, which is how the reporters are built     *)
(* outside the command-line tools.                                         *)
relativePath(gitDiffPath) == gitDiffPath

(* The records of an LCOV report that _parse tells apart: "SF:<path>",     *)
(* "DA:<lineNo>,<executions>"; every other record is ignored.              *)
SF(value) == [directive |-> "SF", value |-> value]
DA(lineNo, executions) == [directive |-> "DA", lineNo |-> lineNo, executions |-> executions]

(* The DA branch of _parse with "=" in place of "+=".                      *)
setExecutions(report, sourceFile, lineNo, executions) ==
    LET section == IF sourceFile \in DOMAIN report THEN report[sourceFile] ELSE <<>>
    IN  [q \in DOMAIN report \cup {sourceFile} |->
            IF q # sourceFile THEN report[q]
            ELSE [l \in DOMAIN section \cup {lineNo} |->
                     IF l = lineNo THEN executions ELSE section[l]]]

(* The DA branch of _parse: the file's section and the line's count are    *)
(* created at 0 when missing, then the executions are added to the count.  *)
addExecutions(report, sourceFile, lineNo, executions) ==
    LET section == IF sourceFile \in DOMAIN report THEN report[sourceFile] ELSE <<>>
        count   == IF lineNo \in DOMAIN section THEN section[lineNo] ELSE 0
    IN  [q \in DOMAIN report \cup {sourceFile} |->
            IF q # sourceFile THEN report[q]
            ELSE [l \in DOMAIN section \cup {lineNo} |->
                     IF l = lineNo THEN count + executions ELSE section[l]]]

(* LcovCoverageReporter._parse: the loop over the records from record i    *)
(* on, with the current source file (None = null) and _lcovReport so far.  *)
RECURSIVE parseFrom(_, _, _, _)
parseFrom(content, i, sourceFile, report) ==
    IF i > Len(content) THEN report
    ELSE LET line == content[i]
         IN  IF line.directive = "SF"
             THEN parseFrom(content, i + 1, Some(toUnixPath(relativePath(line.value))), report)
             ELSE IF line.directive = "DA" /\ ~IsNone(sourceFile)
                  THEN parseFrom(content, i + 1, sourceFile,
                           addExecutions(report, Get(sourceFile), line.lineNo, line.executions))
                  ELSE parseFrom(content, i + 1, sourceFile, report)

_parse(content, report) == parseFrom(content, 1, None, report)

(* _parseAll: every report is parsed into the one _lcovReport.             *)
RECURSIVE parseAllFrom(_, _, _)
parseAllFrom(lcovRoots, i, report) ==
    IF i > Len(lcovRoots) THEN report
    ELSE parseAllFrom(lcovRoots, i + 1, _parse(lcovRoots[i], report))

_parseAll(lcovRoots) == parseAllFrom(lcovRoots, 1, <<>>)

(* XmlCoverageReporter.  A coverage document is its format and, for each   *)
(* file it reports (under the path the format's lookup matches the query   *)
(* with), the line elements of that file.  A line element carries the      *)
(* attributes of its format: Cobertura <line number= hits=>, Clover        *)
(* <line num= count= type=>, JaCoCo <line nr= ci=>.                        *)
CoberturaLine(number, hits) == [number |-> number, hits |-> hits]
CloverLine(num, count, type) == [num |-> num, count |-> count, type |-> type]
JacocoLine(nr, ci) == [nr |-> nr, ci |-> ci]
XmlDocument(format, lines) == [format |-> format, lines |-> lines]

(* _getSrcPathLineNodesCobertura / Clover / Jacoco: null when the document *)
(* does not have the file, else its line elements; of a Clover file only   *)
(* the elements of type stmt and cond.                                     *)
_getSrcPathLineNodes(xmlDocument, srcPath) ==
    IF srcPath \notin DOMAIN xmlDocument.lines THEN None
    ELSE IF xmlDocument.format = "clover"
         THEN Some({line \in xmlDocument.lines[srcPath] : line.type \in {"stmt", "cond"}})
         ELSE Some(xmlDocument.lines[srcPath])

(* numberAttr and hitsAttr of the document's format, read off an element.  *)
lineNumber(xmlDocument, line) ==
    CASE xmlDocument.format = "clover" -> line.num
      [] xmlDocument.format = "jacoco" -> line.nr
      [] OTHER                         -> line.number

lineHits(xmlDocument, line) ==
    CASE xmlDocument.format = "clover" -> line.count
      [] xmlDocument.format = "jacoco" -> line.ci
      [] OTHER                         -> line.hits

(* One document's violations: a Violation for every element with 0 hits.   *)
currentViolations(xmlDocument, lineNodes) ==
    {Violation(lineNumber(xmlDocument, line), NoMessage) :
        line \in {l \in lineNodes : lineHits(xmlDocument, l) = 0}}

(* currentMeasured that leaves out the elements with 0 hits.               *)
currentMeasuredCoveredOnly(xmlDocument, lineNodes) ==
    {lineNumber(xmlDocument, line) :
        line \in {l \in lineNodes : lineHits(xmlDocument, l) # 0}}

(* One document's measured lines: the number of every element.             *)
currentMeasured(xmlDocument, lineNodes) ==
    {lineNumber(xmlDocument, line) : line \in lineNodes}

(* The violations kept after a document, as their union with its own.      *)
uniteViolations(viols, current) ==
    IF IsNone(viols) THEN Some(current) ELSE Some(Get(viols) \cup current)

(* The violations kept after a document: its own when it is the first to   *)
(* have the file, else those kept so far whose line it reports too.        *)
intersectViolations(viols, current) ==
    IF IsNone(viols) THEN Some(current)
    ELSE LET currentSet == {v.line : v \in current}
         IN  Some({v \in Get(viols) : v.line \in currentSet})

(* _cacheFile: the loop over the documents from document i on, with the    *)
(* violations (None = null) and measured lines so far.  A document that    *)
(* does not have the file is skipped.                                      *)
RECURSIVE cacheFileFrom(_, _, _, _, _)
cacheFileFrom(xmlRoots, i, srcPath, viols, measured) ==
    IF i > Len(xmlRoots)
    THEN <<IF IsNone(viols) THEN {} ELSE Get(viols), measured>>
    ELSE LET xmlDocument == xmlRoots[i]
             lineNodes   == _getSrcPathLineNodes(xmlDocument, srcPath)
         IN  IF IsNone(lineNodes)
             THEN cacheFileFrom(xmlRoots, i + 1, srcPath, viols, measured)
             ELSE cacheFileFrom(xmlRoots, i + 1, srcPath,
                      intersectViolations(viols, currentViolations(xmlDocument, Get(lineNodes))),
                      measured \cup currentMeasured(xmlDocument, Get(lineNodes)))

(* The entry _cacheFile stores for a path: <<violations, measured>>.       *)
xmlInfo(xmlRoots, srcPath) == cacheFileFrom(xmlRoots, 1, srcPath, None, {})

(* BaseViolationReporter.violations as the reporters answer it: the LCOV   *)
(* and XML coverage reporters, a QualityReporter over supplied reports     *)
(* (the driver's parsed violationsDict), and a reporter of another         *)
(* subclass, such as the MockViolationReporter of the generator's test.    *)
violations(rep, srcPath) ==
    IF rep.kind = "LCOV"
    THEN lcovInfo(rep.report, srcPath)[1]
    ELSE IF rep.kind = "XML"
    THEN xmlInfo(rep._xmlRoots, srcPath)[1]
    ELSE IF srcPath \in DOMAIN rep.dict THEN rep.dict[srcPath] ELSE {}

(* measuredLines: the coverage reporters return the cached measured set,   *)
(* QualityReporter and the base class return null.                         *)
measuredLines(rep, srcPath) ==
    CASE rep.kind = "LCOV"    -> Some(lcovInfo(rep.report, srcPath)[2])
      [] rep.kind = "XML"     -> Some(xmlInfo(rep._xmlRoots, srcPath)[2])
      [] rep.kind = "quality" -> None
      [] OTHER                -> IF srcPath \in DOMAIN rep.measured
                                 THEN rep.measured[srcPath]
                                 ELSE None

(* BaseViolationReporter.violationsBatch: violations() of every path.      *)
violationsBatch(rep, srcPaths) ==
    [srcPath \in srcPaths |-> violations(rep, srcPath)]

----------------------------------------------------------------------------
(* BaseDiffReporter as the generator uses it.                              *)
srcPathsChanged(d) == DOMAIN d
linesChanged(d, srcPath) == IF srcPath \in DOMAIN d THEN d[srcPath] ELSE {}

----------------------------------------------------------------------------
(* report_generator.ts                                                     *)

(* DiffViolations whose measured lines are not cut down to the diff.       *)
DiffViolationsMeasuredUncut(viols, measured_lines, diff_lines) ==
    LET violationLinesSet == {v.line : v \in viols}
        lines == {x \in violationLinesSet : x \in diff_lines}
    IN  [ lines          |-> lines,
          violations     |-> {v \in viols : v.line \in lines},
          measured_lines |-> IF IsNone(measured_lines)
                             THEN diff_lines
                             ELSE Get(measured_lines) ]

(* DiffViolations that keeps the violations outside the diff.              *)
DiffViolationsLinesUncut(viols, measured_lines, diff_lines) ==
    [ lines          |-> {v.line : v \in viols},
      violations     |-> viols,
      measured_lines |-> IF IsNone(measured_lines)
                         THEN diff_lines
                         ELSE {x \in Get(measured_lines) : x \in diff_lines} ]

(* class DiffViolations, constructor.                                      *)
DiffViolations(viols, measured_lines, diff_lines) ==
    LET diffLinesSet == diff_lines
        violationLinesSet == {v.line : v \in viols}
        lines == {x \in violationLinesSet : x \in diffLinesSet}
    IN  [ lines          |-> lines,
          violations     |-> {v \in viols : v.line \in lines},
          measured_lines |-> IF IsNone(measured_lines)
                             THEN diff_lines
                             ELSE {x \in Get(measured_lines) : x \in diffLinesSet} ]

(* BaseReportGenerator._diffViolations, the computation on a cache miss:   *)
(* one summary per changed path, keyed by its unix spelling.  The reporters*)
(* of this model do not throw, so the batch attempt completes.             *)
computeDiffViolations(rep, d) ==
    LET paths == srcPathsChanged(d)
        batch == violationsBatch(rep, paths)
        keys  == {toUnixPath(p) : p \in paths}
        src(k) == CHOOSE p \in paths : toUnixPath(p) = k
    IN  [ k \in keys |->
            DiffViolations(batch[src(k)], measuredLines(rep, src(k)),
                           linesChanged(d, src(k))) ]

(* _diffViolations: the cached dictionary, filled on first use.            *)
_diffViolations ==
    IF IsNone(diff_violations_dict)
    THEN computeDiffViolations(reporter, diff)
    ELSE Get(diff_violations_dict)

(* srcPaths that lists every key.                                          *)
srcPathsAll(dv) == DOMAIN dv

(* srcPaths: the keys whose summary has a measured line.                   *)
srcPaths(dv) == {src \in DOMAIN dv : Cardinality(dv[src].measured_lines) > 0}

(* Array.sort((a, b) => a - b) of the members of a set of line numbers.    *)
sortAscending(S) ==
    IF S = {} THEN <<>>
    ELSE LET top   == CHOOSE x \in S : \A y \in S : y <= x
             In(x) == x \in S
         IN  SelectSeq([i \in 1..top |-> i], In)

(* violationLines / coveredLines of one path.                              *)
violationLines(dv, srcPath) ==
    IF srcPath \notin DOMAIN dv THEN <<>> ELSE sortAscending(dv[srcPath].lines)

coveredLines(dv, srcPath) ==
    IF srcPath \notin DOMAIN dv
    THEN <<>>
    ELSE LET violationLinesSet ==
                 {violationLines(dv, srcPath)[i] : i \in 1..Len(violationLines(dv, srcPath))}
         IN  sortAscending({x \in dv[srcPath].measured_lines : x \notin violationLinesSet})

(* Sum of f over a finite set (the accumulating loops of the totals).      *)
RECURSIVE SumOver(_, _)
SumOver(S, f) ==
    IF S = {} THEN 0
    ELSE LET x == CHOOSE y \in S : TRUE IN f[x] + SumOver(S \ {x}, f)

(* totalNumLines / totalNumViolations.                                     *)
totalNumLines(dv) ==
    SumOver(DOMAIN dv, [k \in DOMAIN dv |-> Cardinality(dv[k].measured_lines)])

totalNumViolations(dv) ==
    SumOver(DOMAIN dv, [k \in DOMAIN dv |-> Cardinality(dv[k].lines)])

----------------------------------------------------------------------------
(* The arithmetic of totalPercentCovered.  numCovered / totalLines and     *)
(* the products by 100 are IEEE-754 double operations: each result is the  *)
(* exact value rounded to 53 significant bits, ties to even.  A double is  *)
(* modelled exactly: its sign, and for a non-zero value its 53 mantissa    *)
(* bits (most significant first, the first one 1) and the exponent e of    *)
(* its leading bit, the value being  bits[1]*2^e + bits[2]*2^(e-1) + ...   *)

MantissaBits == 53

Pow2(n) == 2 ^ n

RECURSIVE IntToBits(_)
IntToBits(n) == IF n = 0 THEN <<>> ELSE Append(IntToBits(n \div 2), n % 2)

RECURSIVE BitsToInt(_)
BitsToInt(bits) ==
    LET n == Len(bits)
    IN  IF n = 0 THEN 0
        ELSE IF n = 1 THEN bits[1]
        ELSE IF n = 2 THEN 2 * bits[1] + bits[2]
        ELSE 8 * BitsToInt(SubSeq(bits, 1, n - 3))
             + 4 * bits[n - 2] + 2 * bits[n - 1] + bits[n]

AnyOne(bits) == \E i \in 1..Len(bits) : bits[i] = 1

(* bits + 1, with one more leading bit when the carry runs out.            *)
Increment(bits) ==
    LET zeros == {i \in 1..Len(bits) : bits[i] = 0}
    IN  IF zeros = {}
        THEN <<1>> \o [i \in 1..Len(bits) |-> 0]
        ELSE LET j == CHOOSE i \in zeros : \A k \in zeros : k <= i
             IN  [i \in 1..Len(bits) |->
                    IF i < j THEN bits[i] ELSE IF i = j THEN 1 ELSE 0]

(* The n low bits of q, most significant first.                            *)
LowBits(q, n) == [i \in 1..n |-> (q \div (2 ^ (n - i))) % 2]

(* Long arithmetic goes Chunk bits at a step.                              *)
Chunk == 9

DZero == [zero |-> TRUE, neg |-> FALSE, bits |-> <<>>, e |-> 0]

(* Round the exact positive value  bits * 2^(e - Len(bits) + 1), plus a    *)
(* non-zero tail below it when sticky, to a double: nearest, ties to even. *)
RoundToDouble(neg, bits, e, sticky) ==
    IF Len(bits) <= MantissaBits
    THEN [zero |-> FALSE, neg |-> neg, e |-> e,
          bits |-> bits \o [i \in 1..(MantissaBits - Len(bits)) |-> 0]]
    ELSE LET kept   == SubSeq(bits, 1, MantissaBits)
             guard  == bits[MantissaBits + 1]
             rest   == sticky \/ AnyOne(SubSeq(bits, MantissaBits + 2, Len(bits)))
             up     == guard = 1 /\ (rest \/ kept[MantissaBits] = 1)
             inc    == Increment(kept)
         IN  IF ~up
             THEN [zero |-> FALSE, neg |-> neg, e |-> e, bits |-> kept]
             ELSE IF Len(inc) > MantissaBits
                  THEN [zero |-> FALSE, neg |-> neg, e |-> e + 1,
                        bits |-> SubSeq(inc, 1, MantissaBits)]
                  ELSE [zero |-> FALSE, neg |-> neg, e |-> e, bits |-> inc]

(* Long division: the first n bits of r / B after the binary point, for   *)
(* 0 <= r < B, and what is left of the dividend after them.                *)
RECURSIVE DivBits(_, _, _)
DivBits(r, B, n) ==
    IF n = 0 THEN [bits |-> <<>>, rem |-> r]
    ELSE LET c    == IF n < Chunk THEN n ELSE Chunk
             q    == (r * (2 ^ c)) \div B
             tail == DivBits((r * (2 ^ c)) % B, B, n - c)
         IN  [bits |-> LowBits(q, c) \o tail.bits, rem |-> tail.rem]

(* The exponent of a / b, for a, b > 0: 2^e <= a/b < 2^(e+1).              *)
RECURSIVE ExpUp(_, _, _)
ExpUp(a, b, e) == IF 2 * b <= a THEN ExpUp(a, 2 * b, e + 1) ELSE e
RECURSIVE ExpDown(_, _, _)
ExpDown(a, b, e) == IF a < b THEN ExpDown(2 * a, b, e - 1) ELSE e

(* a / b of two integers (b > 0), as the double the division yields.       *)
DoubleDiv(a, b) ==
    IF a = 0 THEN DZero
    ELSE LET mag == IF a < 0 THEN -a ELSE a
             e   == IF mag >= b THEN ExpUp(mag, b, 0) ELSE ExpDown(mag, b, 0)
             A   == IF e < 0 THEN mag * Pow2(-e) ELSE mag
             B   == IF e > 0 THEN b * Pow2(e) ELSE b
             q   == DivBits(A - B, B, MantissaBits)
         IN  RoundToDouble(a < 0, <<1>> \o q.bits, e, q.rem # 0)

(* The exact product bits * k of a bit string and a small integer.         *)
RECURSIVE MulSmall(_, _, _)
MulSmall(bits, k, carry) ==
    IF bits = <<>> THEN IntToBits(carry)
    ELSE LET c     == IF Len(bits) < Chunk THEN Len(bits) ELSE Chunk
             low   == BitsToInt(SubSeq(bits, Len(bits) - c + 1, Len(bits)))
             digit == low * k + carry
             front == SubSeq(bits, 1, Len(bits) - c)
         IN  MulSmall(front, k, digit \div (2 ^ c)) \o LowBits(digit % (2 ^ c), c)

(* x * k for a double x and an integer k >= 1, as a double.                *)
DoubleMul(x, k) ==
    IF x.zero THEN DZero
    ELSE LET prod == MulSmall(x.bits, k, 0)
         IN  RoundToDouble(x.neg, prod, x.e + (Len(prod) - Len(x.bits)), FALSE)

(* The exact difference of two bit strings of one length, a >= b.          *)
RECURSIVE SubBits(_, _, _)
SubBits(a, b, borrow) ==
    IF a = <<>> THEN <<>>
    ELSE LET c     == IF Len(a) < Chunk THEN Len(a) ELSE Chunk
             lowA  == BitsToInt(SubSeq(a, Len(a) - c + 1, Len(a)))
             lowB  == BitsToInt(SubSeq(b, Len(b) - c + 1, Len(b))) + borrow
             digit == IF lowA >= lowB THEN lowA - lowB ELSE lowA + (2 ^ c) - lowB
             out   == IF lowA >= lowB THEN 0 ELSE 1
         IN  SubBits(SubSeq(a, 1, Len(a) - c), SubSeq(b, 1, Len(b) - c), out)
             \o LowBits(digit, c)

(* a < b for two bit strings of one length.                                *)
LessBits(a, b) ==
    \E i \in 1..Len(a) :
        /\ a[i] < b[i]
        /\ \A j \in 1..(i - 1) : a[j] = b[j]

(* bits without its leading zeros.                                         *)
StripZeros(bits) ==
    LET ones == {i \in 1..Len(bits) : bits[i] = 1}
    IN  IF ones = {} THEN <<>>
        ELSE SubSeq(bits, CHOOSE i \in ones : \A k \in ones : i <= k, Len(bits))

(* k - x for an integer k >= 1 and a double x >= 0 with 0 <= x.e <= 52,    *)
(* as a double: both are written in units of the last mantissa bit of x.   *)
DoubleSubFrom(k, x) ==
    IF x.zero
    THEN RoundToDouble(FALSE, IntToBits(k), Len(IntToBits(k)) - 1, FALSE)
    ELSE LET s     == (MantissaBits - 1) - x.e
             kb    == IntToBits(k) \o [i \in 1..s |-> 0]
             n     == IF Len(kb) > Len(x.bits) THEN Len(kb) ELSE Len(x.bits)
             padK  == [i \in 1..(n - Len(kb)) |-> 0] \o kb
             padX  == [i \in 1..(n - Len(x.bits)) |-> 0] \o x.bits
             neg   == LessBits(padK, padX)
             d     == StripZeros(IF neg THEN SubBits(padX, padK, 0)
                                        ELSE SubBits(padK, padX, 0))
         IN  IF d = <<>> THEN DZero
             ELSE RoundToDouble(neg, d, Len(d) - 1 - s, FALSE)

(* The integer part and whether a fraction follows, of |x|.                *)
IntPart(x) ==
    IF x.zero \/ x.e < 0 THEN 0
    ELSE BitsToInt(SubSeq(x.bits, 1, IF x.e + 1 < Len(x.bits) THEN x.e + 1 ELSE Len(x.bits)))
         * (IF x.e + 1 > Len(x.bits) THEN Pow2(x.e + 1 - Len(x.bits)) ELSE 1)

FracBits(x) ==
    IF x.zero THEN <<>>
    ELSE IF x.e < -1 THEN <<0, 1>>
    ELSE IF x.e + 1 >= Len(x.bits) THEN <<>>
    ELSE SubSeq(x.bits, x.e + 2, Len(x.bits))

(* Math.floor.                                                             *)
MathFloor(x) ==
    IF x.zero THEN 0
    ELSE IF x.neg
         THEN -(IntPart(x) + (IF AnyOne(FracBits(x)) THEN 1 ELSE 0))
         ELSE IntPart(x)

(* Math.round: to the nearest integer, a tie towards plus infinity.        *)
MathRound(x) ==
    LET f    == FracBits(x)
        half == f # <<>> /\ f[1] = 1
        more == Len(f) > 1 /\ AnyOne(SubSeq(f, 2, Len(f)))
    IN  IF x.zero THEN 0
        ELSE IF x.neg
             THEN -(IntPart(x) + (IF half /\ more THEN 1 ELSE 0))
             ELSE IntPart(x) + (IF half THEN 1 ELSE 0)

(* percentCovered that answers 100 for a path without measured lines.      *)
percentCoveredNeverNull(dv, srcPath) ==
    IF srcPath \notin DOMAIN dv
    THEN None
    ELSE LET numMeasured == Cardinality(dv[srcPath].measured_lines)
             numUncovered == Cardinality(dv[srcPath].lines)
         IN  IF numMeasured > 0
             THEN Some(DoubleSubFrom(100, DoubleMul(DoubleDiv(numUncovered, numMeasured), 100)))
             ELSE Some(DoubleSubFrom(100, DZero))

(* percentCovered: 100 - (numUncovered / numMeasured) * 100 as a double,   *)
(* or null.                                                                *)
percentCovered(dv, srcPath) ==
    IF srcPath \notin DOMAIN dv
    THEN None
    ELSE LET numMeasured == Cardinality(dv[srcPath].measured_lines)
             numUncovered == Cardinality(dv[srcPath].lines)
         IN  IF numMeasured > 0
             THEN Some(DoubleSubFrom(100, DoubleMul(DoubleDiv(numUncovered, numMeasured), 100)))
             ELSE None

(* totalPercentCovered.  The result is given in hundredths of a percent    *)
(* (Math.round(totalPercent * 100) / 100 is the double nearest to a whole  *)
(* number of hundredths; the integer of the default mode is a multiple of  *)
(* 100 hundredths).                                                        *)
totalPercentCovered(dv, float) ==
    LET totalLines == totalNumLines(dv)
    IN  IF totalLines > 0
        THEN LET numCovered   == totalLines - totalNumViolations(dv)
                 totalPercent == DoubleMul(DoubleDiv(numCovered, totalLines), 100)
             IN  IF float
                 THEN MathRound(DoubleMul(totalPercent, 100))
                 ELSE 100 * MathFloor(totalPercent)
        ELSE 10000

(* numChangedLines: the changed lines of every changed path.               *)
numChangedLines(d) ==
    SumOver(srcPathsChanged(d),
            [p \in srcPathsChanged(d) |-> Cardinality(linesChanged(d, p))])

(* _srcPathStats of one reported path.                                     *)
srcPathStats(dv, srcPath) ==
    [ percent_covered |-> percentCovered(dv, srcPath),
      violation_lines |-> violationLines(dv, srcPath),
      covered_lines   |-> coveredLines(dv, srcPath),
      violations      |-> LET lines == sortAscending({v.line : v \in dv[srcPath].violations})
                          IN  [i \in 1..Len(lines) |->
                                 LET v == CHOOSE w \in dv[srcPath].violations : w.line = lines[i]
                                 IN  <<v.line, v.message>>] ]

(* reportDict.                                                             *)
reportDict(dv, d, float) ==
    [ src_stats            |-> [src \in srcPaths(dv) |-> srcPathStats(dv, src)],
      total_num_lines      |-> totalNumLines(dv),
      total_num_violations |-> totalNumViolations(dv),
      total_percent_covered |-> totalPercentCovered(dv, float),
      num_changed_lines    |-> numChangedLines(d) ]

----------------------------------------------------------------------------
(* The inputs of a generator: a diff reporter (changed path -> changed     *)
(* lines) and a violation reporter.                                        *)

(* Every map from some of the files F to a value of V.                     *)
PartialMaps(F, V) == UNION {[D -> V] : D \in SUBSET F}

SmallDiffs == PartialMaps(Files, SUBSET Lines)

(* LcovCoverageReporter over a parsed report: path -> line -> count.       *)
LcovReporter(report) == [kind |-> "LCOV", report |-> report]

LcovReporters ==
    {LcovReporter(r) : r \in PartialMaps(Files, PartialMaps(Lines, 0..MaxHits))}

(* QualityReporter over supplied reports: the parsed violationsDict.       *)
QualityReporter(dict) == [kind |-> "quality", dict |-> dict]

QualityReporters ==
    {QualityReporter(d) :
        d \in PartialMaps(Files, SUBSET {Violation(l, "msg") : l \in Lines})}

(* A reporter of another subclass: its violations and its measuredLines    *)
(* per path are whatever the subclass returns.                             *)
MockReporter(dict, measured) == [kind |-> "mock", dict |-> dict, measured |-> measured]

(* MockDiffReporter and MockViolationReporter of report_generator.test.ts. *)
TestDiff == [p \in {"file1.ts"} |-> {10, 20, 30}]

TestReporter ==
    MockReporter([p \in {"file1.ts"} |-> {Violation(10, "error"), Violation(20, "warning")}],
                 [p \in {"file1.ts"} |-> Some({5, 10, 15, 20, 25})])

(* One file of n changed and measured lines, the first v of them never     *)
(* executed.                                                               *)
WideInput(n, v) ==
    <<[p \in {"a.ts"} |-> 1..n],
      LcovReporter([p \in {"a.ts"} |-> [l \in 1..n |-> IF l <= v THEN 0 ELSE 1]])>>

WideInputs ==
    UNION {{WideInput(n, v) : v \in 0..n} : n \in (MaxLine + 1)..MaxWide}

Inputs ==
    (SmallDiffs \X (LcovReporters \cup QualityReporters))
        \cup WideInputs
        \cup {<<TestDiff, TestReporter>>}

(* The paths a caller asks about.                                          *)
QueryPaths == Files \cup {"file1.ts"}

(* No command-line tool runs while the generator is used as a library,    *)
(* and its diff reporter is not a GitDiffReporter.                         *)
NoGit ==
    /\ _gitDiffTool = [committed |-> <<>>, staged |-> <<>>, unstaged |-> <<>>,
                       untracked |-> <<>>, _untrackedCache |-> None]
    /\ files = <<>>
    /\ _ignoreStaged = FALSE
    /\ _ignoreUnstaged = FALSE
    /\ _includeUntracked = FALSE
    /\ _exclude = {}
    /\ _diffDict = None

(* No external command has been run.                                       *)
NoRun == commands = <<>>

NoTool ==
    /\ NoRun
    /\ tool = ""
    /\ config = [failUnder |-> <<0>>, totalPercentFloat |-> FALSE]
    /\ exit_code = None
    /\ NoGit

(* new ...ReportGenerator(violations_reporter, diff_reporter, float).      *)
Init ==
    /\ \E in \in Inputs : diff = in[1] /\ reporter = in[2]
    /\ total_percent_float \in BOOLEAN
    /\ diff_violations_dict = None
    /\ result = [op |-> "new", arg |-> "", val |-> <<>>]
    /\ NoTool

(* The queries of the generator.  Every one goes through                   *)
(* _diffViolations(), which leaves the dictionary cached.                  *)
SrcPaths ==
    /\ diff_violations_dict' = Some(_diffViolations)
    /\ result' = [op |-> "srcPaths", arg |-> "", val |-> srcPaths(_diffViolations)]
    /\ UNCHANGED <<diff, reporter, total_percent_float, cliVars, gitVars, runVars>>

PercentCovered(srcPath) ==
    /\ diff_violations_dict' = Some(_diffViolations)
    /\ result' = [op |-> "percentCovered", arg |-> srcPath,
                  val |-> percentCovered(_diffViolations, srcPath)]
    /\ UNCHANGED <<diff, reporter, total_percent_float, cliVars, gitVars, runVars>>

TotalNumLines ==
    /\ diff_violations_dict' = Some(_diffViolations)
    /\ result' = [op |-> "totalNumLines", arg |-> "",
                  val |-> totalNumLines(_diffViolations)]
    /\ UNCHANGED <<diff, reporter, total_percent_float, cliVars, gitVars, runVars>>

TotalNumViolations ==
    /\ diff_violations_dict' = Some(_diffViolations)
    /\ result' = [op |-> "totalNumViolations", arg |-> "",
                  val |-> totalNumViolations(_diffViolations)]
    /\ UNCHANGED <<diff, reporter, total_percent_float, cliVars, gitVars, runVars>>

TotalPercentCovered ==
    /\ diff_violations_dict' = Some(_diffViolations)
    /\ result' = [op |-> "totalPercentCovered", arg |-> "",
                  val |-> totalPercentCovered(_diffViolations, total_percent_float)]
    /\ UNCHANGED <<diff, reporter, total_percent_float, cliVars, gitVars, runVars>>

ReportDict ==
    /\ diff_violations_dict' = Some(_diffViolations)
    /\ result' = [op |-> "reportDict", arg |-> "",
                  val |-> reportDict(_diffViolations, diff, total_percent_float)]
    /\ UNCHANGED <<diff, reporter, total_percent_float, cliVars, gitVars, runVars>>

Next ==
    \/ SrcPaths
    \/ \E srcPath \in QueryPaths : PercentCovered(srcPath)
    \/ TotalNumLines
    \/ TotalNumViolations
    \/ TotalPercentCovered
    \/ ReportDict

Spec == Init /\ [][Next]_vars

(* A generator over a reporter of any subclass, default display mode.      *)
MockReporters ==
    {MockReporter(d, m) :
        d \in [Files -> SUBSET {Violation(l, "msg") : l \in Lines}],
        m \in [Files -> {None} \cup {Some(S) : S \in SUBSET Lines}]}

InitAny ==
    /\ diff \in SmallDiffs
    /\ reporter \in MockReporters
    /\ total_percent_float = FALSE
    /\ diff_violations_dict = None
    /\ result = [op |-> "new", arg |-> "", val |-> <<>>]
    /\ NoTool

SpecAny == InitAny /\ [][Next]_vars

----------------------------------------------------------------------------
(* What the two reporters say about a changed path, as sets.               *)
Built == ~IsNone(diff_violations_dict)
Summaries == Get(diff_violations_dict)
ChangedLines(p) == linesChanged(diff, p)
ReportedViolationLines(p) == {v.line : v \in violations(reporter, p)}
ReportedMeasuredLines(p) ==
    IF IsNone(measuredLines(reporter, p)) THEN ChangedLines(p)
    ELSE Get(measuredLines(reporter, p))
ViolationLinesInDiff(p) == ReportedViolationLines(p) \cap ChangedLines(p)
MeasuredLinesInDiff(p) == ReportedMeasuredLines(p) \cap ChangedLines(p)
ReporterConsistent(p) ==
    IsNone(measuredLines(reporter, p))
        \/ ReportedViolationLines(p) \subseteq Get(measuredLines(reporter, p))

(* C1 as stated: for any violation reporter and diff reporter, every       *)
(* per-file summary has violationLines within measuredLines within the     *)
(* changed lines of the file.                                              *)
C1_SubsetChainAnyReporter ==
    Built =>
        \A p \in srcPathsChanged(diff) :
            /\ Summaries[toUnixPath(p)].lines \subseteq Summaries[toUnixPath(p)].measured_lines
            /\ Summaries[toUnixPath(p)].measured_lines \subseteq ChangedLines(p)

(* C1 amended: for any reporters the summary's measuredLines and           *)
(* violationLines lie within the changed lines; violationLines lie within  *)
(* measuredLines when the reporter's measuredLines(file) is null or holds  *)
(* the line of each of its violations(file).                               *)
C1_SubsetChain ==
    Built =>
        \A p \in srcPathsChanged(diff) :
            /\ Summaries[toUnixPath(p)].measured_lines \subseteq ChangedLines(p)
            /\ Summaries[toUnixPath(p)].lines \subseteq ChangedLines(p)
            /\ ReporterConsistent(p) =>
                   Summaries[toUnixPath(p)].lines
                       \subseteq Summaries[toUnixPath(p)].measured_lines

C1_Witness ==
    /\ Built
    /\ \E p \in srcPathsChanged(diff) :
          /\ ~IsNone(measuredLines(reporter, p))
          /\ ReporterConsistent(p)
          /\ Summaries[toUnixPath(p)].lines # {}
          /\ Summaries[toUnixPath(p)].measured_lines # ChangedLines(p)

(* A percentage as a whole number of 1/100000 percent: the double of the   *)
(* code rounded to five decimals, and the exact 100 - 100 * v / m rounded  *)
(* to five decimals (v <= m).                                              *)
ToFiveDecimals(x) == MathRound(DoubleMul(x, 100000))
ExactPercentFiveDecimals(v, m) == (2 * 100000 * (100 * m - 100 * v) + m) \div (2 * m)

(* C2: once the summaries are built, every changed file's violationLines   *)
(* are the reporter's violation lines cut with the diff lines and its      *)
(* measuredLines the reporter's measured lines (all diff lines when null)  *)
(* cut with the diff lines; percentCovered of a changed file with measured *)
(* lines is 100 - 100*|violationLines|/|measuredLines| (to the five        *)
(* decimals a double carries safely); the test's example reports 0% with   *)
(* missing lines 10, 20.                                                   *)
C2_SummaryIsIntersection ==
    /\ Built =>
          \A p \in srcPathsChanged(diff) :
              /\ Summaries[toUnixPath(p)].lines = ViolationLinesInDiff(p)
              /\ Summaries[toUnixPath(p)].measured_lines = MeasuredLinesInDiff(p)
    /\ (result.op = "percentCovered" /\ MeasuredLinesInDiff(result.arg) # {}) =>
          /\ ~IsNone(result.val)
          /\ ToFiveDecimals(Get(result.val))
                = ExactPercentFiveDecimals(Cardinality(ViolationLinesInDiff(result.arg)),
                                           Cardinality(MeasuredLinesInDiff(result.arg)))
    /\ (result.op = "reportDict" /\ diff = TestDiff /\ reporter = TestReporter) =>
          /\ DOMAIN result.val.src_stats = {"file1.ts"}
          /\ result.val.src_stats["file1.ts"].percent_covered = Some(DZero)
          /\ result.val.src_stats["file1.ts"].violation_lines = <<10, 20>>
          /\ result.val.total_num_lines = 2

C2_Witness ==
    /\ result.op = "reportDict"
    /\ diff = TestDiff
    /\ reporter = TestReporter
    /\ "file1.ts" \in DOMAIN result.val.src_stats

(* Comparisons of a double with 0 and with 100.                            *)
DoubleAtLeastZero(x) == x.zero \/ ~x.neg
DoubleAtMostHundred(x) ==
    x.zero \/ x.neg \/ IntPart(x) < 100 \/ (IntPart(x) = 100 /\ ~AnyOne(FracBits(x)))

SumMeasured(P) == SumOver(P, [p \in P |-> Cardinality(MeasuredLinesInDiff(p))])
SumViolations(P) == SumOver(P, [p \in P |-> Cardinality(ViolationLinesInDiff(p))])

(* C4: in the default mode totalPercentCovered() is 100*(M - V)/M          *)
(* truncated toward zero (M measured changed lines, V violation lines      *)
(* over all changed files), and 100 when M = 0.  The value is compared in  *)
(* hundredths of a percent.                                                *)
C4_TotalPercentTruncated ==
    (result.op = "totalPercentCovered" /\ ~total_percent_float) =>
        LET M == SumMeasured(srcPathsChanged(diff))
            V == SumViolations(srcPathsChanged(diff))
        IN  result.val = 100 * (IF M = 0 THEN 100 ELSE (100 * (M - V)) \div M)

(* The changed files that have a measured changed line.                    *)
MeasuredPaths == {p \in srcPathsChanged(diff) : MeasuredLinesInDiff(p) # {}}

----------------------------------------------------------------------------
(* diff_cover_tool.ts and diff_quality_tool.ts, main().                    *)

(* A threshold is a number of hundredths <<h>>, or NaN.                    *)
NaN == <<>>
Number(h) == <<h>>
IsNaN(x) == Len(x) = 0

(* parseFloat of the --fail-under argument.                                *)
parseFloat(score) ==
    CASE score = "0"    -> Number(0)
      [] score = "57.5" -> Number(5750)
      [] score = "58"   -> Number(5800)
      [] score = "100"  -> Number(10000)
      [] OTHER          -> NaN

FailUnderArgs == {"0", "57.5", "58", "100", "abc"}

(* defaults.failUnder of both tools.                                       *)
DefaultFailUnder == 0

(* getConfig: the defaults, overridden by the options given.               *)
getConfig(failUnderArg, totalPercentFloat) ==
    [ failUnder         |-> IF IsNone(failUnderArg) THEN Number(DefaultFailUnder)
                            ELSE parseFloat(Get(failUnderArg)),
      totalPercentFloat |-> totalPercentFloat ]

(* percent <= config.failUnder, both in hundredths.                        *)
belowOrAtThreshold(percent, failUnder) == ~IsNaN(failUnder) /\ percent <= failUnder[1]

(* percent < config.failUnder: a comparison with NaN is false.             *)
belowThreshold(percent, failUnder) == ~IsNaN(failUnder) /\ percent < failUnder[1]

(* The tool starts: its config, its reporters built from the input files,  *)
(* and the generator's display mode taken from the config.                 *)
CliInputs ==
    [ diff_cover   |-> WideInputs \cup (SmallDiffs \X LcovReporters),
      diff_quality |-> SmallDiffs \X QualityReporters ]

InitCli ==
    /\ tool \in {"diff_cover", "diff_quality"}
    /\ \E in \in CliInputs[tool] : diff = in[1] /\ reporter = in[2]
    /\ \E arg \in {None} \cup {Some(a) : a \in FailUnderArgs}, float \in BOOLEAN :
          config = getConfig(arg, float)
    /\ total_percent_float = config.totalPercentFloat
    /\ diff_violations_dict = None
    /\ result = [op |-> "new", arg |-> "", val |-> <<>>]
    /\ exit_code = None
    /\ NoGit
    /\ NoRun

(* The rest of main(): a step before the report may end the process with   *)
(* process.exit(1) (an unreadable or unsupported input) or throw, which    *)
(* main().catch turns into process.exit(1); otherwise the report is        *)
(* written, totalPercentCovered() is compared with failUnder, and the      *)
(* process ends with status 1 when it is below and with 0 when main()      *)
(* returns.                                                                *)
Main(t) ==
    /\ tool = t
    /\ exit_code = None
    /\ \E outcome \in {"reports", "exits", "throws"} :
          IF outcome = "reports"
          THEN LET percent == totalPercentCovered(_diffViolations, total_percent_float)
               IN  /\ diff_violations_dict' = Some(_diffViolations)
                   /\ result' = [op |-> "main", arg |-> outcome, val |-> percent]
                   /\ exit_code' = IF belowThreshold(percent, config.failUnder)
                                    THEN Some(1) ELSE Some(0)
          ELSE /\ result' = [op |-> "main", arg |-> outcome, val |-> <<>>]
               /\ exit_code' = Some(1)
               /\ UNCHANGED diff_violations_dict
    /\ UNCHANGED <<diff, reporter, total_percent_float, tool, config, gitVars, runVars>>

DiffCoverMain == Main("diff_cover")

DiffQualityMain == Main("diff_quality")

NextCli == DiffCoverMain \/ DiffQualityMain

SpecCli == InitCli /\ [][NextCli]_vars

(* C6: a tool that computed total_percent_covered below fail-under ends    *)
(* with a non-zero status, and a run that completes without error with     *)
(* total_percent_covered >= fail-under ends with status 0.                 *)
C6_ExitStatus ==
    ~IsNone(exit_code) =>
        LET percent == totalPercentCovered(computeDiffViolations(reporter, diff),
                                           config.totalPercentFloat)
            failUnder == config.failUnder
        IN  /\ (result.arg = "reports" /\ ~IsNaN(failUnder) /\ percent < failUnder[1])
                    => Get(exit_code) # 0
            /\ (result.arg = "reports" /\ ~IsNaN(failUnder) /\ percent >= failUnder[1])
                    => Get(exit_code) = 0

C6_Witness ==
    /\ tool = "diff_quality"
    /\ result.op = "main"
    /\ result.arg = "reports"
    /\ result.val = 5000
    /\ config.failUnder = Number(5750)
    /\ exit_code = Some(1)

----------------------------------------------------------------------------
(* diff_reporter.ts, GitDiffReporter: the parser of a unified diff.        *)
(*                                                                         *)
(* A diff text is the sequence of its lines, and a line is what the        *)
(* parser can tell of it:                                                  *)
(*   GitLine(p)   "diff --git a/<p> b/<p>"  (p = "": no path to capture)    *)
(*   CcLine(p)    "diff --cc <p>"                                          *)
(*   HunkLine(d)  "@@ -1 +<d> @@", d the decimal digits after the first    *)
(*                "+" (possibly none); HunkNoPlus is "@@ -1 @@"            *)
(*   "+", "-"     a line that starts with that character                   *)
(*   " "          a context line, which starts with a space                *)
(*   "\\"         "\ No newline at end of file", which git prints after     *)
(*                the last line of a side that does not end in a newline   *)
GitLine(p) == [kind |-> "diff --git", path |-> p]
CcLine(p) == [kind |-> "diff --cc", path |-> p]
HunkLine(digits) == [kind |-> "@@", plus |-> Some(digits)]
HunkNoPlus == [kind |-> "@@", plus |-> None]
AddedLine == [kind |-> "+"]
DeletedLine == [kind |-> "-"]
OtherLine == [kind |-> " "]
NoNewlineLine == [kind |-> "\\"]

(* A call returns a value or throws GitDiffError.                          *)
Return(v) == [ok |-> TRUE, val |-> v]
GitDiffError(message) == [ok |-> FALSE, error |-> message]

(* parseInt(digits, 10) of a non-empty string of decimal digits.           *)
RECURSIVE parseInt(_)
parseInt(digits) ==
    IF Len(digits) = 0 THEN 0
    ELSE 10 * parseInt(SubSeq(digits, 1, Len(digits) - 1)) + digits[Len(digits)]

(* _parseHunkLine that takes a header without a number to start at 0.      *)
_parseHunkLineLenient(line) ==
    IF IsNone(line.plus) THEN Return(0) ELSE Return(parseInt(Get(line.plus)))

(* _parseHunkLine: HUNK_LINE_RE must match and capture a non-empty string  *)
(* of digits, which parseInt turns into the hunk's first line.             *)
_parseHunkLine(line) ==
    IF IsNone(line.plus) \/ Len(Get(line.plus)) = 0
    THEN GitDiffError("Could not parse hunk")
    ELSE Return(parseInt(Get(line.plus)))

(* _parseSourceLine: the path the header's regex captures.                 *)
_parseSourceLine(line) ==
    IF line.kind \notin {"diff --git", "diff --cc"}
    THEN GitDiffError("Do not recognize format of source")
    ELSE IF line.path = ""
         THEN GitDiffError("Could not parse source path")
         ELSE Return(line.path)

(* foundHunk left as it was by a file header.                              *)
keptAfterHeader(foundHunk) == foundHunk

(* foundHunk = false after a file header.                                  *)
afterHeader(foundHunk) == FALSE

(* _parseSourceSections: the loop over the lines from line i on, with the  *)
(* sections found so far, the current path (None = null) and foundHunk.    *)
RECURSIVE parseSourceSectionsFrom(_, _, _, _, _)
parseSourceSectionsFrom(lines, i, sourceDict, srcPath, foundHunk) ==
    IF i > Len(lines) THEN Return(sourceDict)
    ELSE LET line == lines[i]
         IN  IF line.kind \in {"diff --git", "diff --cc"}
             THEN LET parsed == _parseSourceLine(line)
                  IN  IF ~parsed.ok THEN parsed
                      ELSE parseSourceSectionsFrom(lines, i + 1,
                               IF parsed.val \in DOMAIN sourceDict
                               THEN sourceDict
                               ELSE [q \in DOMAIN sourceDict \cup {parsed.val} |->
                                        IF q \in DOMAIN sourceDict THEN sourceDict[q] ELSE <<>>],
                               Some(parsed.val), afterHeader(foundHunk))
             ELSE IF foundHunk \/ line.kind = "@@"
                  THEN IF ~IsNone(srcPath)
                       THEN parseSourceSectionsFrom(lines, i + 1,
                                [sourceDict EXCEPT ![Get(srcPath)] = Append(@, line)],
                                srcPath, TRUE)
                       ELSE IF line.kind = "@@"
                            THEN GitDiffError("Hunk has no source file")
                            ELSE parseSourceSectionsFrom(lines, i + 1, sourceDict, srcPath, TRUE)
                  ELSE parseSourceSectionsFrom(lines, i + 1, sourceDict, srcPath, foundHunk)

_parseSourceSections(diffStr) ==
    parseSourceSectionsFrom(diffStr, 1, <<>>, None, FALSE)

(* _parseLines: the loop over a section's lines from line i on, with the   *)
(* added and deleted line numbers so far and the two counters (None =      *)
(* null).  A hunk header sets both counters to the hunk's first line.      *)
RECURSIVE parseLinesFrom(_, _, _, _, _, _)
parseLinesFrom(diffLines, i, addedLines, deletedLines, currentLineNew, currentLineOld) ==
    IF i > Len(diffLines) THEN Return(<<addedLines, deletedLines>>)
    ELSE LET line == diffLines[i]
         IN  IF line.kind = "@@"
             THEN LET lineNum == _parseHunkLine(line)
                  IN  IF ~lineNum.ok THEN lineNum
                      ELSE parseLinesFrom(diffLines, i + 1, addedLines, deletedLines,
                                          Some(lineNum.val), Some(lineNum.val))
             ELSE IF line.kind = "+"
             THEN IF ~IsNone(currentLineNew)
                  THEN parseLinesFrom(diffLines, i + 1,
                                      Append(addedLines, Get(currentLineNew)), deletedLines,
                                      Some(Get(currentLineNew) + 1), currentLineOld)
                  ELSE parseLinesFrom(diffLines, i + 1, addedLines, deletedLines,
                                      currentLineNew, currentLineOld)
             ELSE IF line.kind = "-"
             THEN IF ~IsNone(currentLineOld)
                  THEN parseLinesFrom(diffLines, i + 1,
                                      addedLines, Append(deletedLines, Get(currentLineOld)),
                                      currentLineNew, Some(Get(currentLineOld) + 1))
                  ELSE parseLinesFrom(diffLines, i + 1, addedLines, deletedLines,
                                      currentLineNew, currentLineOld)
             ELSE parseLinesFrom(diffLines, i + 1, addedLines, deletedLines,
                      IF IsNone(currentLineNew) THEN None ELSE Some(Get(currentLineNew) + 1),
                      IF IsNone(currentLineOld) THEN None ELSE Some(Get(currentLineOld) + 1))

_parseLines(diffLines) == parseLinesFrom(diffLines, 1, <<>>, <<>>, None, None)

(* _parseDiffStr: path -> <<addedLines, deletedLines>>, or the error of    *)
(* the first section that does not parse.                                  *)
_parseDiffStr(diffStr) ==
    LET sectionsDict == _parseSourceSections(diffStr)
    IN  IF ~sectionsDict.ok THEN sectionsDict
        ELSE IF \E q \in DOMAIN sectionsDict.val : ~_parseLines(sectionsDict.val[q]).ok
             THEN GitDiffError("Could not parse hunk")
             ELSE Return([q \in DOMAIN sectionsDict.val |->
                             _parseLines(sectionsDict.val[q]).val])

(* The members of a sequence.                                              *)
Range(seq) == {seq[i] : i \in 1..Len(seq)}

(* _uniqueOrderedLines without the Set: sorted, duplicates kept.           *)
RECURSIVE orderedLinesWithDuplicates(_)
orderedLinesWithDuplicates(lineNumbers) ==
    IF Len(lineNumbers) = 0 THEN <<>>
    ELSE LET i == CHOOSE j \in 1..Len(lineNumbers) :
                      \A k \in 1..Len(lineNumbers) : lineNumbers[j] <= lineNumbers[k]
         IN  <<lineNumbers[i]>> \o
             orderedLinesWithDuplicates(SubSeq(lineNumbers, 1, i - 1)
                                        \o SubSeq(lineNumbers, i + 1, Len(lineNumbers)))

(* _uniqueOrderedLines: Array.from(new Set(lineNumbers)).sort(a - b).      *)
RECURSIVE sortedMembers(_)
sortedMembers(S) ==
    IF S = {} THEN <<>>
    ELSE LET least == CHOOSE x \in S : \A y \in S : x <= y
         IN  <<least>> \o sortedMembers(S \ {least})

_uniqueOrderedLines(lineNumbers) == sortedMembers(Range(lineNumbers))

----------------------------------------------------------------------------
(* GitDiffReporter: the merge of the diff sources and the queries.         *)

(* isPathExcluded, with the exclude patterns taken as plain paths.         *)
isPathExcluded(p) == p \in _exclude

(* _validatePathToDiff (no list of supported extensions is given).         *)
_validatePathToDiff(srcPath) == ~isPathExcluded(srcPath)

(* _getIncludedDiffResults: committed, then staged, then unstaged.         *)
_getIncludedDiffResults ==
    <<_gitDiffTool.committed>>
        \o (IF ~_ignoreStaged THEN <<_gitDiffTool.staged>> ELSE <<>>)
        \o (IF ~_ignoreUnstaged THEN <<_gitDiffTool.unstaged>> ELSE <<>>)

(* mergeSource that removes the deleted lines after appending the added.   *)
mergeSourceDeleteLast(resultDict, diffDict) ==
    LET raws == {q \in DOMAIN diffDict : _validatePathToDiff(toUnixPath(q))}
        keys == {toUnixPath(q) : q \in raws}
        raw(k) == CHOOSE q \in raws : toUnixPath(q) = k
    IN  [k \in DOMAIN resultDict \cup keys |->
            IF k \notin keys THEN resultDict[k]
            ELSE LET existing     == IF k \in DOMAIN resultDict THEN resultDict[k] ELSE <<>>
                     deletedLines == diffDict[raw(k)][2]
                     Kept(line)   == line \notin Range(deletedLines)
                 IN  SelectSeq(existing \o diffDict[raw(k)][1], Kept)]

(* mergeSource that appends without removing the deleted lines.            *)
mergeSourceKeepDeleted(resultDict, diffDict) ==
    LET raws == {q \in DOMAIN diffDict : _validatePathToDiff(toUnixPath(q))}
        keys == {toUnixPath(q) : q \in raws}
        raw(k) == CHOOSE q \in raws : toUnixPath(q) = k
    IN  [k \in DOMAIN resultDict \cup keys |->
            IF k \notin keys THEN resultDict[k]
            ELSE (IF k \in DOMAIN resultDict THEN resultDict[k] ELSE <<>>)
                 \o diffDict[raw(k)][1]]

(* One round of the loop of _gitDiff: the lines a later source deletes     *)
(* leave the lines kept so far, then the lines it adds are appended.       *)
mergeSource(resultDict, diffDict) ==
    LET raws == {q \in DOMAIN diffDict : _validatePathToDiff(toUnixPath(q))}
        keys == {toUnixPath(q) : q \in raws}
        raw(k) == CHOOSE q \in raws : toUnixPath(q) = k
    IN  [k \in DOMAIN resultDict \cup keys |->
            IF k \notin keys THEN resultDict[k]
            ELSE LET existing     == IF k \in DOMAIN resultDict THEN resultDict[k] ELSE <<>>
                     addedLines   == diffDict[raw(k)][1]
                     deletedLines == diffDict[raw(k)][2]
                     Kept(line)   == line \notin Range(deletedLines)
                 IN  SelectSeq(existing, Kept) \o addedLines]

RECURSIVE mergeFrom(_, _, _)
mergeFrom(included, i, resultDict) ==
    IF i > Len(included) THEN Return(resultDict)
    ELSE LET diffDict == _parseDiffStr(included[i])
         IN  IF ~diffDict.ok THEN diffDict
             ELSE mergeFrom(included, i + 1, mergeSource(resultDict, diffDict.val))

(* _gitDiff: the cached dictionary, or the merge of the included sources   *)
(* with every list made unique and ordered; a source that does not parse   *)
(* throws and nothing is cached.                                           *)
_gitDiff ==
    IF IsNone(_diffDict)
    THEN LET merged == mergeFrom(_getIncludedDiffResults, 1, <<>>)
         IN  IF ~merged.ok THEN merged
             ELSE Return([k \in DOMAIN merged.val |-> _uniqueOrderedLines(merged.val[k])])
    ELSE Return(Get(_diffDict))

(* _getFileLines: the number of lines of a file, 0 when it cannot be read. *)
_getFileLines(p) == IF p \in DOMAIN files THEN files[p] ELSE 0

(* Object.keys(diffDict).sort(...): the keys in alphabetical order.        *)
sortedKeys(d) ==
    LET In(q) == q \in DOMAIN d
    IN  SelectSeq(<<"a.ts", "b.ts", "u.ts">>, In)

(* GitDiffTool.untracked: the remembered list, or the one git ls-files     *)
(* prints now.                                                             *)
untracked(gitDiff) ==
    IF IsNone(gitDiff._untrackedCache) THEN gitDiff.untracked ELSE Get(gitDiff._untrackedCache)

(* The tool after untracked(): the list is remembered, an empty one too.   *)
afterUntracked(gitDiff) == [gitDiff EXCEPT !._untrackedCache = Some(untracked(gitDiff))]

(* srcPathsChanged adds every valid untracked file, whole, to the cached   *)
(* dictionary.                                                             *)
withUntracked(diffDict) ==
    LET added == {q \in Range(untracked(_gitDiffTool)) : _validatePathToDiff(q)}
    IN  IF ~_includeUntracked THEN diffDict
        ELSE [k \in DOMAIN diffDict \cup added |->
                 IF k \in added THEN [i \in 1..(_getFileLines(k)) |-> i]
                 ELSE diffDict[k]]

(* The diff texts.                                                         *)
RECURSIVE SeqsUpTo(_, _)
SeqsUpTo(S, n) ==
    IF n = 0 THEN {<<>>}
    ELSE LET shorter == SeqsUpTo(S, n - 1)
         IN  shorter \cup {Append(t, x) : t \in {u \in shorter : Len(u) = n - 1}, x \in S}

DiffLines ==
    { GitLine("a.ts"), GitLine(""), CcLine("a.ts"), CcLine(""),
      HunkNoPlus, HunkLine(<<>>), HunkLine(<<0>>), HunkLine(<<2>>), HunkLine(<<1, 0>>),
      AddedLine, DeletedLine, OtherLine }

(* The text git prints for one source with -U0: nothing, or one hunk of    *)
(* a.ts that starts at a line and deletes and adds lines.                  *)
SourceTexts ==
    {<<>>} \cup
    { <<GitLine("a.ts"), HunkLine(<<start>>)>> \o body :
        start \in Lines,
        body \in SeqsUpTo({AddedLine, DeletedLine}, MaxBody) \ {<<>>} }

(* A reporter over a diff file (GitDiffFileTool: the file's text is the    *)
(* committed diff, nothing is staged, unstaged or untracked), or over a    *)
(* working tree with the three sources and one untracked file.             *)
InitGit ==
    /\ \/ /\ \E text \in SeqsUpTo(DiffLines, MaxDiffLen) :
                _gitDiffTool = [committed |-> text, staged |-> <<>>, unstaged |-> <<>>,
                                untracked |-> <<>>, _untrackedCache |-> None]
          /\ files = <<>>
          /\ _ignoreStaged = FALSE
          /\ _ignoreUnstaged = FALSE
          /\ _includeUntracked = FALSE
          /\ _exclude = {}
       \/ /\ \E committed \in SourceTexts, staged \in SourceTexts, unstaged \in SourceTexts :
                _gitDiffTool = [committed |-> committed, staged |-> staged,
                                unstaged |-> unstaged, untracked |-> <<"u.ts">>, _untrackedCache |-> None]
          /\ files = [q \in {"u.ts"} |-> MaxLine]
          /\ _ignoreStaged \in BOOLEAN
          /\ _ignoreUnstaged \in BOOLEAN
          /\ _includeUntracked \in BOOLEAN
          /\ _exclude \in {{}, {"a.ts"}}
    /\ _diffDict = None
    /\ result = [op |-> "new", arg |-> "", val |-> <<>>]
    /\ diff = <<>>
    /\ reporter = QualityReporter(<<>>)
    /\ total_percent_float = FALSE
    /\ diff_violations_dict = None
    /\ tool = ""
    /\ config = [failUnder |-> <<0>>, totalPercentFloat |-> FALSE]
    /\ exit_code = None
    /\ NoRun

GitQueryPaths == {"a.ts", "./a.ts", "u.ts"}

(* linesChanged(srcPath): what the call does to the reporter and returns.  *)
linesChangedCall(srcPath) ==
    /\ IF _gitDiff.ok
       THEN /\ _diffDict' = Some(_gitDiff.val)
            /\ result' = [op |-> "linesChanged", arg |-> srcPath, error |-> "",
                          val |-> IF toUnixPath(srcPath) \in DOMAIN _gitDiff.val
                                  THEN _gitDiff.val[toUnixPath(srcPath)]
                                  ELSE <<>>]
       ELSE /\ result' = [op |-> "linesChanged", arg |-> srcPath,
                          error |-> _gitDiff.error, val |-> <<>>]
            /\ UNCHANGED _diffDict
    /\ UNCHANGED <<_gitDiffTool, files, _ignoreStaged, _ignoreUnstaged, _includeUntracked,
                   _exclude>>
    /\ UNCHANGED <<diff, reporter, total_percent_float, diff_violations_dict, cliVars>>

LinesChanged(srcPath) == linesChangedCall(srcPath) /\ UNCHANGED runVars

(* srcPathsChanged(): what the call does to the reporter and to the tool   *)
(* (whose untracked() it calls when untracked files are included), and     *)
(* what it returns.                                                        *)
srcPathsChangedCall ==
    /\ IF _gitDiff.ok
       THEN /\ _diffDict' = Some(withUntracked(_gitDiff.val))
            /\ _gitDiffTool' = IF _includeUntracked THEN afterUntracked(_gitDiffTool)
                               ELSE _gitDiffTool
            /\ result' = [op |-> "srcPathsChanged", arg |-> "", error |-> "",
                          val |-> sortedKeys(withUntracked(_gitDiff.val))]
       ELSE /\ result' = [op |-> "srcPathsChanged", arg |-> "",
                          error |-> _gitDiff.error, val |-> <<>>]
            /\ UNCHANGED <<_diffDict, _gitDiffTool>>
    /\ UNCHANGED <<files, _ignoreStaged, _ignoreUnstaged, _includeUntracked, _exclude>>
    /\ UNCHANGED <<diff, reporter, total_percent_float, diff_violations_dict, cliVars>>

SrcPathsChanged == srcPathsChangedCall /\ UNCHANGED runVars

(* clearCache() that leaves the cached dictionary in place.                *)
ClearCacheKeepsDict ==
    /\ result' = [op |-> "clearCache", arg |-> "", val |-> <<>>]
    /\ UNCHANGED <<_gitDiffTool, files, _ignoreStaged, _ignoreUnstaged, _includeUntracked,
                   _exclude, _diffDict>>
    /\ UNCHANGED <<diff, reporter, total_percent_float, diff_violations_dict, cliVars, runVars>>

(* clearCache().                                                           *)
ClearCache ==
    /\ _diffDict' = None
    /\ result' = [op |-> "clearCache", arg |-> "", val |-> <<>>]
    /\ UNCHANGED <<_gitDiffTool, files, _ignoreStaged, _ignoreUnstaged, _includeUntracked,
                   _exclude>>
    /\ UNCHANGED <<diff, reporter, total_percent_float, diff_violations_dict, cliVars, runVars>>

NextGit ==
    \/ \E srcPath \in GitQueryPaths : LinesChanged(srcPath)
    \/ SrcPathsChanged
    \/ ClearCache

SpecGit == InitGit /\ [][NextGit]_vars

----------------------------------------------------------------------------
(* What each included source says of a file, once all of them parse.       *)
Included == _getIncludedDiffResults
Cached == ~IsNone(_diffDict)
FinalLines(f) == IF f \in DOMAIN Get(_diffDict) THEN Range(Get(_diffDict)[f]) ELSE {}
AddedBy(i, f) ==
    IF f \in DOMAIN _parseDiffStr(Included[i]).val
    THEN Range(_parseDiffStr(Included[i]).val[f][1]) ELSE {}
DeletedBy(i, f) ==
    IF f \in DOMAIN _parseDiffStr(Included[i]).val
    THEN Range(_parseDiffStr(Included[i]).val[f][2]) ELSE {}
DiffedFiles == {"a.ts"}

(* C7: once a diff text has parsed without error, every line number        *)
(* recorded as added, for every file, is at least 1.                       *)
C7_AddedLinesPositive ==
    Cached => \A f \in DOMAIN Get(_diffDict) : \A l \in FinalLines(f) : l >= 1

(* C8 as stated: after the merge no line number of a file is both in its   *)
(* final added lines and in the deleted lines parsed for it.               *)
C8_AddedDeletedDisjoint ==
    Cached =>
        \A f \in DiffedFiles : \A i \in 1..Len(Included) :
            FinalLines(f) \cap DeletedBy(i, f) = {}

(* C8 amended: a final added line of a file that is among the lines a      *)
(* source deletes is a line that the same source or a later one adds.      *)
C8_DeletedOnlyIfReAdded ==
    Cached =>
        \A f \in DiffedFiles : \A i \in 1..Len(Included) :
            \A l \in FinalLines(f) \cap DeletedBy(i, f) :
                \E j \in i..Len(Included) : l \in AddedBy(j, f)

C8_Witness ==
    /\ Cached
    /\ Len(Included) >= 2
    /\ \E l \in FinalLines("a.ts") : l \in DeletedBy(2, "a.ts") /\ l \in AddedBy(1, "a.ts")
    /\ \E l \in AddedBy(1, "a.ts") \cap DeletedBy(2, "a.ts") : l \notin FinalLines("a.ts")

StrictlyAscending(seq) == \A i \in 1..Len(seq) : \A j \in (i + 1)..Len(seq) : seq[i] < seq[j]

(* C10: linesChanged(file) is strictly ascending, without duplicates,      *)
(* whatever sources were merged; a line added by two sources is there      *)
(* once.                                                                   *)
C10_LinesChangedAscending ==
    /\ (result.op = "linesChanged" /\ result.error = "") => StrictlyAscending(result.val)
    /\ Cached => \A f \in DOMAIN Get(_diffDict) : StrictlyAscending(Get(_diffDict)[f])

C10_Witness ==
    /\ result.op = "linesChanged"
    /\ result.error = ""
    /\ Len(result.val) >= 2
    /\ Len(Included) >= 2
    /\ \E l \in AddedBy(1, "a.ts") \cap AddedBy(2, "a.ts") :
          /\ l \notin DeletedBy(2, "a.ts")
          /\ l \in Range(result.val)

----------------------------------------------------------------------------
(* The parser on one hunk of one file: the header lines git prints before  *)
(* the hunk ("index ...", "--- a/a.ts", "+++ b/a.ts") or none of them, the *)
(* hunk header "@@ -1,0 +<c>,<n> @@" and a body of "+", "-" and context    *)
(* lines and of "\ No newline at end of file" markers.                     *)
MaxHunkBody == 4    \* longest body of the single hunk, in lines

HunkStarts == {<<1>>, <<3>>, <<1, 0>>}
FileHeaders == {<<>>, <<OtherLine, DeletedLine, AddedLine>>}

HunkTexts ==
    { <<GitLine("a.ts")>> \o headers \o <<HunkLine(c)>> \o body :
        headers \in FileHeaders,
        c \in HunkStarts,
        body \in SeqsUpTo({AddedLine, DeletedLine, OtherLine, NoNewlineLine}, MaxHunkBody) }

InitParse ==
    /\ \E text \in HunkTexts :
          _gitDiffTool = [committed |-> text, staged |-> <<>>, unstaged |-> <<>>,
                          untracked |-> <<>>, _untrackedCache |-> None]
    /\ files = <<>>
    /\ _ignoreStaged = FALSE
    /\ _ignoreUnstaged = FALSE
    /\ _includeUntracked = FALSE
    /\ _exclude = {}
    /\ _diffDict = None
    /\ result = [op |-> "new", arg |-> "", val |-> <<>>]
    /\ diff = <<>>
    /\ reporter = QualityReporter(<<>>)
    /\ total_percent_float = FALSE
    /\ diff_violations_dict = None
    /\ tool = ""
    /\ config = [failUnder |-> <<0>>, totalPercentFloat |-> FALSE]
    /\ exit_code = None
    /\ NoRun

(* _parseDiffStr(diffStr) of the committed diff.                           *)
ParseDiffStr ==
    /\ result' = [op |-> "_parseDiffStr", arg |-> "", val |-> _parseDiffStr(_gitDiffTool.committed)]
    /\ UNCHANGED <<gitVars, diff, reporter, total_percent_float, diff_violations_dict, cliVars, runVars>>

NextParse == ParseDiffStr

SpecParse == InitParse /\ [][NextParse]_vars

----------------------------------------------------------------------------
(* The hunk of a text of HunkTexts: its header's position, its new-side    *)
(* start and its body.                                                     *)
HunkAt(text) == CHOOSE h \in 1..Len(text) : text[h].kind = "@@"
HunkStart(text) == parseInt(Get(text[HunkAt(text)].plus))
HunkBody(text) == SubSeq(text, HunkAt(text) + 1, Len(text))

(* The positions of the lines of a kind in a body, in order.               *)
PositionsOf(body, kind) ==
    LET OfKind(k) == body[k].kind = kind
    IN  SelectSeq([k \in 1..Len(body) |-> k], OfKind)

(* How many "+" and context lines precede position k of a body.            *)
NewSideBefore(body, k) == Cardinality({j \in 1..(k - 1) : body[j].kind \in {"+", " "}})

Parsed == result.op = "_parseDiffStr"
ParsedAdded == result.val.val["a.ts"][1]
ParsedDeleted == result.val.val["a.ts"][2]

(* C11: within one hunk whose header gives new-side start c, the i-th "+"  *)
(* line is recorded as added with number c plus the count of "+" and       *)
(* context lines before it, so "-" lines shift nothing; nothing but "+"    *)
(* lines is recorded as added and nothing but "-" lines as deleted, so     *)
(* context lines are never recorded; "@@ -1,0 +3,2 @@" followed by two "+" *)
(* lines gives added = [3,4] and deleted = [].                             *)
C11_AddedLineNumbers ==
    Parsed =>
        LET text == _gitDiffTool.committed
            c    == HunkStart(text)
            body == HunkBody(text)
            plus == PositionsOf(body, "+")
        IN  /\ result.val.ok
            /\ DOMAIN result.val.val = {"a.ts"}
            /\ ParsedAdded = [i \in 1..Len(plus) |-> c + NewSideBefore(body, plus[i])]
            /\ Len(ParsedDeleted) = Len(PositionsOf(body, "-"))
            /\ (c = 3 /\ body = <<AddedLine, AddedLine>>)
                   => (ParsedAdded = <<3, 4>> /\ ParsedDeleted = <<>>)

(* A diff text that is malformed: a hunk header before any file header, a  *)
(* hunk header without a number after "+", or a file header from which     *)
(* no path can be taken.                                                   *)
HunkBeforeFile(text) ==
    \E i \in 1..Len(text) :
        /\ text[i].kind = "@@"
        /\ \A j \in 1..(i - 1) : text[j].kind \notin {"diff --git", "diff --cc"}
HunkWithoutNumber(text) ==
    \E i \in 1..Len(text) :
        /\ text[i].kind = "@@"
        /\ (IsNone(text[i].plus) \/ Len(Get(text[i].plus)) = 0)
HeaderWithoutPath(text) ==
    \E i \in 1..Len(text) :
        /\ text[i].kind \in {"diff --git", "diff --cc"}
        /\ text[i].path = ""
Malformed(text) == HunkBeforeFile(text) \/ HunkWithoutNumber(text) \/ HeaderWithoutPath(text)
Queried == result.op \in {"linesChanged", "srcPathsChanged"}

(* C12: when an included diff text is malformed (hunk header before any    *)
(* file header, hunk header without a new-side number, file header that    *)
(* does not match its path pattern), every query of the changed lines or   *)
(* paths fails with the parse error, and no mapping is ever cached, so a   *)
(* later query fails again.                                                *)
C12_MalformedDiffFails ==
    (\E k \in 1..Len(Included) : Malformed(Included[k]))
        => /\ ~Cached
           /\ Queried => result.error # ""

C12_Witness ==
    /\ _gitDiffTool.committed = <<GitLine("a.ts"), HunkLine(<<2>>), AddedLine, HunkLine(<<>>)>>
    /\ result.op = "linesChanged"
    /\ result.arg = "a.ts"
    /\ result.error # ""
    /\ result.val = <<>>
    /\ ~Cached

----------------------------------------------------------------------------
(* The coverage reporters on their own: built from report sources, then    *)
(* asked for the violations and the measured lines of paths.               *)
MaxSources == 2     \* most report sources given to one coverage reporter
MaxDA == 2          \* most DA records after the SF record of an LCOV report

(* new XmlCoverageReporter(xmlContentList): nothing is cached yet.         *)
XmlCoverageReporter(xmlRoots) ==
    [kind |-> "XML", _xmlRoots |-> xmlRoots, _infoCache |-> <<>>]

(* new LcovCoverageReporter(lcovContentList): the constructor parses every *)
(* report into _lcovReport.                                                *)
LcovCoverageReporter(lcovRoots) ==
    [kind |-> "LCOV", _lcovRoots |-> lcovRoots, report |-> _parseAll(lcovRoots),
     _infoCache |-> <<>>]

(* The line elements a document of a format may hold for a file.           *)
LineElements(format) ==
    CASE format = "cobertura" -> {CoberturaLine(l, h) : l \in Lines, h \in 0..MaxHits}
      [] format = "jacoco"    -> {JacocoLine(l, h) : l \in Lines, h \in 0..MaxHits}
      [] format = "clover"    -> {CloverLine(1, h, "stmt") : h \in 0..MaxHits}
                                     \cup {CloverLine(MaxLine, h, "cond") : h \in 0..MaxHits}
                                     \cup {CloverLine(1, 0, "method")}

XmlDocuments ==
    UNION {{XmlDocument(format, lines) :
               lines \in PartialMaps({"a.ts"}, SUBSET LineElements(format))} :
           format \in {"cobertura", "clover", "jacoco"}}

(* An LCOV report: possibly records ahead of the file's section (a DA      *)
(* record before any SF record, or the section of another file), then      *)
(* the SF record of a.ts in one of two spellings and its DA records.       *)
LcovContents ==
    { ahead \o <<SF(value)>> \o records :
        ahead \in {<<>>, <<DA(MaxLine, 0)>>, <<SF("b.ts"), DA(MaxLine, 0)>>},
        value \in {"a.ts", "./a.ts"},
        records \in SeqsUpTo({DA(l, h) : l \in Lines, h \in 0..MaxHits}, MaxDA) }

(* The report of the format's example: SF:a.ts, DA:1,0, DA:2,3.            *)
LcovExample == <<SF("a.ts"), DA(1, 0), DA(2, 3)>>

CoverageReporters ==
    {XmlCoverageReporter(xmlRoots) : xmlRoots \in SeqsUpTo(XmlDocuments, MaxSources)}
        \cup {LcovCoverageReporter(lcovRoots) : lcovRoots \in SeqsUpTo(LcovContents, MaxSources)}
        \cup {LcovCoverageReporter(<<LcovExample>>)}

InitCov ==
    /\ reporter \in CoverageReporters
    /\ diff = <<>>
    /\ total_percent_float = FALSE
    /\ diff_violations_dict = None
    /\ result = [op |-> "new", arg |-> "", val |-> <<>>]
    /\ NoTool

(* _infoCache after _cacheFile(srcPath) (XML) or after the cache miss of   *)
(* violations(srcPath) (LCOV): an entry that exists is kept.               *)
_cacheFile(rep, srcPath) ==
    IF srcPath \in DOMAIN rep._infoCache THEN rep._infoCache
    ELSE [q \in DOMAIN rep._infoCache \cup {srcPath} |->
             IF q # srcPath THEN rep._infoCache[q]
             ELSE IF rep.kind = "XML" THEN xmlInfo(rep._xmlRoots, srcPath)
                  ELSE lcovInfo(rep.report, srcPath)]

(* violations(srcPath) of a coverage reporter.                             *)
Violations(srcPath) ==
    /\ reporter' = [reporter EXCEPT !._infoCache = _cacheFile(reporter, srcPath)]
    /\ result' = [op |-> "violations", arg |-> srcPath,
                  val |-> _cacheFile(reporter, srcPath)[srcPath][1]]
    /\ UNCHANGED <<diff, total_percent_float, diff_violations_dict, cliVars, gitVars, runVars>>

(* measuredLines(srcPath) of a coverage reporter.                          *)
MeasuredLines(srcPath) ==
    /\ reporter' = [reporter EXCEPT !._infoCache = _cacheFile(reporter, srcPath)]
    /\ result' = [op |-> "measuredLines", arg |-> srcPath,
                  val |-> _cacheFile(reporter, srcPath)[srcPath][2]]
    /\ UNCHANGED <<diff, total_percent_float, diff_violations_dict, cliVars, gitVars, runVars>>

NextCov ==
    \E srcPath \in Files : Violations(srcPath) \/ MeasuredLines(srcPath)

SpecCov == InitCov /\ [][NextCov]_vars

----------------------------------------------------------------------------
(* What a coverage reporter has answered so far.                           *)
Answered == DOMAIN reporter._infoCache
AnsweredViolationLines(f) == {v.line : v \in reporter._infoCache[f][1]}
AnsweredMeasuredLines(f) == reporter._infoCache[f][2]

(* C13: for the XML (Cobertura, Clover, JaCoCo) and LCOV reporters, every  *)
(* file and any number of report sources, the line of every Violation      *)
(* returned by violations(file) is a member of measuredLines(file).        *)
C13_ViolationsWithinMeasured ==
    \A f \in Answered : AnsweredViolationLines(f) \subseteq AnsweredMeasuredLines(f)

C13_Witness ==
    /\ reporter.kind = "XML"
    /\ Len(reporter._xmlRoots) = MaxSources
    /\ reporter._xmlRoots[1].format = "clover"
    /\ reporter._xmlRoots[2].format = "jacoco"
    /\ "a.ts" \in Answered
    /\ AnsweredViolationLines("a.ts") = {1}
    /\ AnsweredMeasuredLines("a.ts") = Lines
    /\ result.op = "measuredLines"

(* What one XML source says of a line of a file: the source has the file,  *)
(* it measures the line (an element of the file carries the number), it    *)
(* marks the line uncovered (such an element has 0 hits) or covered (it    *)
(* measures the line and does not mark it uncovered).                      *)
Roots == reporter._xmlRoots
HasFile(i, f) == ~IsNone(_getSrcPathLineNodes(Roots[i], f))
ElementsOf(i, f, l) ==
    {e \in Get(_getSrcPathLineNodes(Roots[i], f)) : lineNumber(Roots[i], e) = l}
Measures(i, f, l) == ElementsOf(i, f, l) # {}
MarksUncovered(i, f, l) == \E e \in ElementsOf(i, f, l) : lineHits(Roots[i], e) = 0
MarksCovered(i, f, l) == Measures(i, f, l) /\ ~MarksUncovered(i, f, l)
SourcesWith(f) == {i \in 1..Len(Roots) : HasFile(i, f)}

(* C14: when several XML sources contain a file, a line is a violation of  *)
(* the file only if every source that contains the file marks it           *)
(* uncovered, and the measured lines are the union of the lines any of     *)
(* those sources measures; a line that source 1 marks uncovered and        *)
(* source 2 marks covered is not a violation but is measured.              *)
C14_IntersectionAndUnion ==
    reporter.kind = "XML" =>
        \A f \in Answered :
            /\ \A l \in AnsweredViolationLines(f) :
                   \A i \in SourcesWith(f) : MarksUncovered(i, f, l)
            /\ AnsweredMeasuredLines(f) =
                   {l \in Lines : \E i \in SourcesWith(f) : Measures(i, f, l)}
            /\ \A l \in Lines :
                   (/\ Len(Roots) >= 2
                    /\ HasFile(1, f) /\ MarksUncovered(1, f, l)
                    /\ HasFile(2, f) /\ MarksCovered(2, f, l))
                       => (l \notin AnsweredViolationLines(f) /\ l \in AnsweredMeasuredLines(f))

C14_Witness ==
    /\ reporter.kind = "XML"
    /\ Len(Roots) = 2
    /\ Roots[1].format = "cobertura"
    /\ Roots[2].format = "cobertura"
    /\ "a.ts" \in Answered
    /\ HasFile(1, "a.ts") /\ MarksUncovered(1, "a.ts", 1) /\ MarksUncovered(1, "a.ts", MaxLine)
    /\ HasFile(2, "a.ts") /\ MarksCovered(2, "a.ts", 1) /\ MarksUncovered(2, "a.ts", MaxLine)
    /\ AnsweredViolationLines("a.ts") = {MaxLine}
    /\ AnsweredMeasuredLines("a.ts") = Lines
    /\ result.op = "violations"

(* The DA records of the reports given to an LCOV reporter that stand      *)
(* under the SF section of a file, as <<report, position>> pairs; a record *)
(* stands under the section of the last SF record before it.               *)
LcovRoots == reporter._lcovRoots
SectionAt(content, j) ==
    LET sfs == {k \in 1..(j - 1) : content[k].directive = "SF"}
    IN  IF sfs = {} THEN None
        ELSE Some(toUnixPath(content[CHOOSE k \in sfs : \A m \in sfs : m <= k].value))
RecordsUnder(f) ==
    {rj \in UNION {{<<r, j>> : j \in 1..Len(LcovRoots[r])} : r \in 1..Len(LcovRoots)} :
        /\ LcovRoots[rj[1]][rj[2]].directive = "DA"
        /\ SectionAt(LcovRoots[rj[1]], rj[2]) = Some(f)}
RecordsOfLine(f, l) == {rj \in RecordsUnder(f) : LcovRoots[rj[1]][rj[2]].lineNo = l}
SummedCount(f, l) ==
    SumOver(RecordsOfLine(f, l),
            [rj \in RecordsOfLine(f, l) |-> LcovRoots[rj[1]][rj[2]].executions])

(* C15: for LCOV input the counts of the DA records of a file and line     *)
(* are summed within a report and across the reports; measuredLines(file)  *)
(* is the set of the lines with a DA record under the file's SF section,   *)
(* and a line is a violation exactly when its summed count is 0; the       *)
(* report SF:a.ts, DA:1,0, DA:2,3 gives a violation at line 1 only and     *)
(* measured lines {1,2}.                                                   *)
C15_LcovCountsSummed ==
    reporter.kind = "LCOV" =>
        /\ \A f \in Answered :
              /\ AnsweredMeasuredLines(f) =
                     {LcovRoots[rj[1]][rj[2]].lineNo : rj \in RecordsUnder(f)}
              /\ reporter._infoCache[f][1] =
                     {Violation(l, NoMessage) :
                         l \in {m \in AnsweredMeasuredLines(f) : SummedCount(f, m) = 0}}
              /\ \A l \in AnsweredMeasuredLines(f) : reporter.report[f][l] = SummedCount(f, l)
        /\ (LcovRoots = <<LcovExample>> /\ "a.ts" \in Answered)
               => /\ reporter._infoCache["a.ts"][1] = {Violation(1, NoMessage)}
                  /\ AnsweredMeasuredLines("a.ts") = {1, 2}

C15_Witness ==
    /\ reporter.kind = "LCOV"
    /\ LcovRoots = << <<SF("a.ts"), DA(1, 0), DA(MaxLine, 0)>>,
                      <<SF("b.ts"), DA(MaxLine, 0), SF("./a.ts"), DA(1, 1), DA(MaxLine, 0)>> >>
    /\ result.op = "violations"
    /\ result.arg = "a.ts"
    /\ result.val = {Violation(MaxLine, NoMessage)}
    /\ AnsweredMeasuredLines("a.ts") = Lines

----------------------------------------------------------------------------
(* snippets.ts, class Snippet: the ranges of the source excerpts.          *)
NUM_CONTEXT_LINES == 4
MAX_GAP_IN_SNIPPET == 4

MaxSrcLines == 16   \* longest source file of the freely chosen inputs, in lines
MaxViolations == 3  \* most violation lines of such a file

(* Math.max(1, n) taken as n.                                              *)
secondOf(a, b) == b

(* Math.max and Math.min of two numbers.                                   *)
Max(a, b) == IF a >= b THEN a ELSE b
Min(a, b) == IF a <= b THEN a ELSE b

(* _snippetRanges: the loop from line lineNum on, with the open range's    *)
(* start (None = null), the counter and the ranges pushed so far.          *)
(* currentEnd is null whenever the loop tests it, so it is not carried.    *)
RECURSIVE snippetRangesFrom(_, _, _, _, _, _)
snippetRangesFrom(numSrcLines, violation_lines, lineNum, currentStart, linesSinceLastViolation, snippetRanges) ==
    IF lineNum > numSrcLines
    THEN IF ~IsNone(currentStart)
         THEN Append(snippetRanges, <<Get(currentStart), numSrcLines>>)
         ELSE snippetRanges
    ELSE IF IsNone(currentStart)
    THEN IF lineNum \in Range(violation_lines)
         THEN snippetRangesFrom(numSrcLines, violation_lines, lineNum + 1,
                                Some(Max(1, lineNum - NUM_CONTEXT_LINES)), 0, snippetRanges)
         ELSE snippetRangesFrom(numSrcLines, violation_lines, lineNum + 1,
                                currentStart, linesSinceLastViolation, snippetRanges)
    ELSE IF lineNum \in Range(violation_lines)
    THEN snippetRangesFrom(numSrcLines, violation_lines, lineNum + 1,
                           currentStart, 0 + 1, snippetRanges)
    ELSE IF linesSinceLastViolation > MAX_GAP_IN_SNIPPET
    THEN LET snippetEnd == lineNum - linesSinceLastViolation
             currentEnd == Min(numSrcLines, snippetEnd + NUM_CONTEXT_LINES)
         IN  snippetRangesFrom(numSrcLines, violation_lines, lineNum + 1,
                               None, linesSinceLastViolation + 1,
                               Append(snippetRanges, <<Get(currentStart), currentEnd>>))
    ELSE snippetRangesFrom(numSrcLines, violation_lines, lineNum + 1,
                           currentStart, linesSinceLastViolation + 1, snippetRanges)

_snippetRanges(numSrcLines, violation_lines) ==
    snippetRangesFrom(numSrcLines, violation_lines, 1, None, 0, <<>>)

(* srcLines.length of loadSnippets.  The files of this model do not end in *)
(* a newline, so the split gives one piece per line; a file that cannot be *)
(* read has no contents.                                                   *)
srcLinesLength(srcPath) == IF srcPath \in DOMAIN files THEN files[srcPath] ELSE 0

(* loadSnippets, as the <<start, end>> of the snippets it builds: none for *)
(* a file without contents.                                                *)
loadSnippets(srcPath, violation_lines) ==
    IF srcLinesLength(srcPath) = 0 THEN <<>>
    ELSE _snippetRanges(srcLinesLength(srcPath), violation_lines)

(* A template report generator with snippets over one file: the file has   *)
(* n lines, and lines V of it are changed and carry a violation each.      *)
SnippetInput(n, V) ==
    [ files    |-> [p \in {"a.ts"} |-> n],
      diff     |-> [p \in {"a.ts"} |-> V],
      reporter |-> QualityReporter([p \in {"a.ts"} |-> {Violation(l, "msg") : l \in V}]) ]

SnippetInputs ==
    {SnippetInput(n, V) :
        n \in 0..MaxSrcLines,
        V \in {W \in SUBSET (1..(MaxSrcLines + 1)) : Cardinality(W) <= MaxViolations}}
      \cup {SnippetInput(50, {10}), SnippetInput(50, {10, 20})}

InitSnippets ==
    /\ \E in \in SnippetInputs :
          /\ files = in.files
          /\ diff = in.diff
          /\ reporter = in.reporter
    /\ total_percent_float = FALSE
    /\ diff_violations_dict = None
    /\ result = [op |-> "new", arg |-> "", val |-> <<>>]
    /\ tool = ""
    /\ config = [failUnder |-> <<0>>, totalPercentFloat |-> FALSE]
    /\ exit_code = None
    /\ _gitDiffTool = [committed |-> <<>>, staged |-> <<>>, unstaged |-> <<>>,
                       untracked |-> <<>>, _untrackedCache |-> None]
    /\ _ignoreStaged = FALSE
    /\ _ignoreUnstaged = FALSE
    /\ _includeUntracked = FALSE
    /\ _exclude = {}
    /\ _diffDict = None
    /\ NoRun

(* _srcPathStats of the template generator with includeSnippets: the       *)
(* snippets of the path are loaded for its violation lines.                *)
LoadSnippets(srcPath) ==
    /\ diff_violations_dict' = Some(_diffViolations)
    /\ result' = [op |-> "loadSnippets", arg |-> srcPath,
                  val |-> loadSnippets(srcPath, violationLines(_diffViolations, srcPath))]
    /\ UNCHANGED <<diff, reporter, total_percent_float, cliVars, gitVars, runVars>>

NextSnippets == \E srcPath \in {"a.ts"} : LoadSnippets(srcPath)

SpecSnippets == InitSnippets /\ [][NextSnippets]_vars

----------------------------------------------------------------------------
(* The ranges returned for a.ts, its length and its violation lines.       *)
Loaded == result.op = "loadSnippets"
Ranges == result.val
TotalLines == files["a.ts"]
ViolationsInFile == {l \in diff["a.ts"] : l <= TotalLines}
Within(l, range) == range[1] <= l /\ l <= range[2]

(* C16: the snippet ranges are in ascending order and pairwise disjoint:   *)
(* each range ends before the next one starts.                             *)
C16_RangesDisjoint ==
    Loaded => \A i \in 1..(Len(Ranges) - 1) : Ranges[i][2] < Ranges[i + 1][1]

(* C17: every snippet range starts at max(1, f - 4) and ends at            *)
(* min(totalLines, l + 4) for violation lines f <= l of the file, and      *)
(* ranges(50, [10]) is exactly [(6,14)].                                   *)
C17_RangeBounds ==
    Loaded =>
        /\ \A i \in 1..Len(Ranges) :
               \E f \in ViolationsInFile, l \in ViolationsInFile :
                   /\ f <= l
                   /\ Ranges[i][1] = Max(1, f - 4)
                   /\ Ranges[i][2] = Min(TotalLines, l + 4)
        /\ (TotalLines = 50 /\ diff["a.ts"] = {10}) => Ranges = << <<6, 14>> >>

(* C18: two consecutive violation lines of the file are in one snippet     *)
(* range when at most 4 lines lie strictly between them and in no common   *)
(* range when more than 4 do; violations at 10 and 20 of a 50-line file    *)
(* give two ranges.                                                        *)
C18_GapThreshold ==
    Loaded =>
        /\ \A a \in ViolationsInFile, b \in ViolationsInFile :
               (a < b /\ \A m \in ViolationsInFile : ~(a < m /\ m < b))
                   => IF b - a - 1 <= 4
                      THEN \E i \in 1..Len(Ranges) : Within(a, Ranges[i]) /\ Within(b, Ranges[i])
                      ELSE \A i \in 1..Len(Ranges) : ~(Within(a, Ranges[i]) /\ Within(b, Ranges[i]))
        /\ (TotalLines = 50 /\ diff["a.ts"] = {10, 20}) => Len(Ranges) = 2

----------------------------------------------------------------------------
(* violations_reporter.ts, QualityReporter with its driver: the reports    *)
(* supplied to it, or the linter it runs on a file.                        *)
MaxReports == 2     \* most report texts supplied to a quality reporter
MaxCalls == 3       \* external commands after which no further query is made

(* A line of a report or of the linter's output that the driver's          *)
(* expression matches: the file, the line number and the message.          *)
ReportLine(src, line, message) == [src |-> src, line |-> line, message |-> message]

(* RegexBasedDriver.parseReports: every matched line of every report adds  *)
(* a Violation under the unix spelling of its file.                        *)
parseReports(reports) ==
    LET matches == UNION {reports[i] : i \in 1..Len(reports)}
    IN  [src \in {toUnixPath(m.src) : m \in matches} |->
            {Violation(m.line, m.message) : m \in {n \in matches : toUnixPath(n.src) = src}}]

(* String.endsWith on the paths and extensions of this model.              *)
endsWith(srcPath, ext) ==
    CASE ext = "ts" -> srcPath \in {"a.ts", "./a.ts", "b.ts"}
      [] ext = "md" -> srcPath = "notes.md"
      [] OTHER      -> FALSE

(* A QualityDriver: its extensions, whether its install check succeeds,    *)
(* and the matched lines of what its command prints for a file.            *)
QualityDriver(isInstalled, lint) ==
    [name |-> "mock", supportedExtensions |-> {"ts"}, isInstalled |-> isInstalled,
     lint |-> lint]

(* new QualityReporter(driver, reports): reports is null (None) for a live *)
(* run of the linter.                                                      *)
newQualityReporter(driver, reports) ==
    [kind |-> "quality", driver |-> driver, reports |-> reports,
     violationsDict |-> <<>>, driverToolInstalled |-> None]

(* if (this.reports) taken as "some report text was supplied".             *)
reportsNotEmpty(rep) == ~IsNone(rep.reports) /\ Len(Get(rep.reports)) > 0

(* if (this.reports): an array, even an empty one, is truthy.              *)
reportsSupplied(rep) == ~IsNone(rep.reports)

(* !fs.existsSync taken as always false.                                   *)
fileNeverMissing(relativeSrcPath) == FALSE

(* !fs.existsSync(relativeSrcPath).                                        *)
fileMissing(relativeSrcPath) == relativeSrcPath \notin DOMAIN files

(* Object.assign(this.violationsDict, newViolations).                      *)
assign(violationsDict, newViolations) ==
    [q \in DOMAIN violationsDict \cup DOMAIN newViolations |->
        IF q \in DOMAIN newViolations THEN newViolations[q] ELSE violationsDict[q]]

(* violationsDict[relativeSrcPath] || [].                                  *)
entryOrEmpty(violationsDict, relativeSrcPath) ==
    IF relativeSrcPath \in DOMAIN violationsDict THEN violationsDict[relativeSrcPath] ELSE {}

(* The install check taken as always successful.                           *)
driverAlwaysInstalled(rep) == TRUE

(* this.driverToolInstalled after lines 423-425: the remembered answer of  *)
(* driver.installed(), asked when none is remembered.                      *)
driverInstalled(rep) ==
    IF IsNone(rep.driverToolInstalled) THEN rep.driver.isInstalled
    ELSE Get(rep.driverToolInstalled)

(* QualityReporter.violations(srcPath): the reporter and the command log   *)
(* after the call, and what it returns or throws.  failed says whether     *)
(* the linter's run ends with an exit code the driver does not accept.     *)
qualityViolations(rep, srcPath, log, failed) ==
    LET hasExt == \E ext \in rep.driver.supportedExtensions : endsWith(srcPath, ext)
        relativeSrcPath == toUnixPath(relativePath(srcPath))
        Returns(r, l, val) == [rep |-> r, log |-> l, error |-> "", val |-> val]
        Throws(r, l, message) == [rep |-> r, log |-> l, error |-> message, val |-> {}]
    IN  IF ~hasExt THEN Returns(rep, log, {})
        ELSE IF relativeSrcPath \in DOMAIN rep.violationsDict
        THEN Returns(rep, log, rep.violationsDict[relativeSrcPath])
        ELSE IF reportsSupplied(rep)
        THEN LET parsed == parseReports(Get(rep.reports))
             IN  Returns([rep EXCEPT !.violationsDict = parsed], log,
                         entryOrEmpty(parsed, relativeSrcPath))
        ELSE IF fileMissing(relativeSrcPath)
        THEN Returns([rep EXCEPT !.violationsDict =
                          assign(@, [q \in {relativeSrcPath} |-> {}])], log, {})
        ELSE LET asked     == IsNone(rep.driverToolInstalled)
                 log1      == IF asked THEN Append(log, [call |-> "installed", arg |-> ""])
                              ELSE log
                 installed == driverInstalled(rep)
                 rep1      == [rep EXCEPT !.driverToolInstalled = Some(installed)]
                 log2      == Append(log1, [call |-> "execute", arg |-> relativeSrcPath])
                 merged    == assign(rep.violationsDict,
                                     parseReports(<<rep.driver.lint[relativeSrcPath]>>))
             IN  IF ~installed THEN Throws(rep1, log1, "is not installed")
                 ELSE IF failed THEN Throws(rep1, log2, "command failed")
                 ELSE Returns([rep1 EXCEPT !.violationsDict = merged], log2,
                              entryOrEmpty(merged, relativeSrcPath))

(* The reports, linters and working trees of the quality reporter.         *)
ReportTexts == SUBSET {ReportLine("a.ts", 1, "msg"), ReportLine("./a.ts", MaxLine, "msg")}

Linters ==
    { [p \in {"a.ts", "b.ts"} |-> {}],
      [p \in {"a.ts", "b.ts"} |-> {ReportLine(p, 1, "msg")}] }

QualityPaths == {"a.ts", "./a.ts", "b.ts", "notes.md"}

InitQuality ==
    /\ \E isInstalled \in BOOLEAN, lint \in Linters,
          reports \in {None} \cup {Some(t) : t \in SeqsUpTo(ReportTexts, MaxReports)} :
          reporter = newQualityReporter(QualityDriver(isInstalled, lint), reports)
    /\ \E present \in SUBSET {"a.ts", "b.ts"} : files = [p \in present |-> MaxLine]
    /\ diff = <<>>
    /\ total_percent_float = FALSE
    /\ diff_violations_dict = None
    /\ result = [op |-> "new", arg |-> "", error |-> "", val |-> {}]
    /\ tool = ""
    /\ config = [failUnder |-> <<0>>, totalPercentFloat |-> FALSE]
    /\ exit_code = None
    /\ _gitDiffTool = [committed |-> <<>>, staged |-> <<>>, unstaged |-> <<>>,
                       untracked |-> <<>>, _untrackedCache |-> None]
    /\ _ignoreStaged = FALSE
    /\ _ignoreUnstaged = FALSE
    /\ _includeUntracked = FALSE
    /\ _exclude = {}
    /\ _diffDict = None
    /\ NoRun

(* reporter.violations(srcPath).                                           *)
QualityViolations(srcPath) ==
    /\ Len(commands) < MaxCalls
    /\ \E failed \in BOOLEAN :
          LET call == qualityViolations(reporter, srcPath, commands, failed)
          IN  /\ reporter' = call.rep
              /\ commands' = call.log
              /\ result' = [op |-> "violations", arg |-> srcPath,
                            error |-> call.error, val |-> call.val]
    /\ UNCHANGED <<diff, total_percent_float, diff_violations_dict, cliVars, gitVars>>

NextQuality == \E srcPath \in QualityPaths : QualityViolations(srcPath)

SpecQuality == InitQuality /\ [][NextQuality]_vars

----------------------------------------------------------------------------
(* C19: when report texts were supplied to a QualityReporter, no sequence  *)
(* of violations(file) calls runs an external command or asks whether the  *)
(* linter is installed, no call throws, and a file absent from the         *)
(* supplied reports yields an empty list.                                  *)
C19_ReportsNeverExecute ==
    ~IsNone(reporter.reports) =>
        /\ commands = <<>>
        /\ IsNone(reporter.driverToolInstalled)
        /\ result.op = "violations" =>
               /\ result.error = ""
               /\ toUnixPath(result.arg) \notin DOMAIN parseReports(Get(reporter.reports))
                      => result.val = {}

C19_Witness ==
    /\ ~IsNone(reporter.reports)
    /\ Len(Get(reporter.reports)) = MaxReports
    /\ "a.ts" \in DOMAIN reporter.violationsDict
    /\ ~reporter.driver.isInstalled
    /\ "b.ts" \in DOMAIN files
    /\ result.op = "violations"
    /\ result.arg = "b.ts"
    /\ result.val = {}
    /\ commands = <<>>

(* C20: in live-lint mode a query of a file whose path does not exist      *)
(* returns no violation and does not throw, runs no command and does not   *)
(* ask whether the linter is installed, and for a file of a supported      *)
(* extension the empty list is stored; a file stored with the empty list   *)
(* is answered from the store, without a command, from then on.            *)
C20_MissingFileIsEmpty ==
    [][ (IsNone(reporter.reports) /\ result'.op = "violations")
            => LET srcPath == result'.arg
                   rel     == toUnixPath(srcPath)
               IN  /\ rel \notin DOMAIN files
                       => /\ result'.error = ""
                          /\ result'.val = {}
                          /\ commands' = commands
                          /\ reporter'.driverToolInstalled = reporter.driverToolInstalled
                          /\ endsWith(srcPath, "ts")
                                 => /\ rel \in DOMAIN reporter'.violationsDict
                                    /\ reporter'.violationsDict[rel] = {}
                   /\ (rel \in DOMAIN reporter.violationsDict /\ reporter.violationsDict[rel] = {})
                       => /\ result'.error = ""
                          /\ result'.val = {}
                          /\ commands' = commands
                          /\ reporter'.violationsDict = reporter.violationsDict ]_vars

C20_Witness ==
    /\ IsNone(reporter.reports)
    /\ ~reporter.driver.isInstalled
    /\ "b.ts" \notin DOMAIN files
    /\ "b.ts" \in DOMAIN reporter.violationsDict
    /\ reporter.violationsDict["b.ts"] = {}
    /\ result.op = "violations"
    /\ result.arg = "b.ts"
    /\ result.error = ""
    /\ result.val = {}
    /\ Len(commands) = 1

----------------------------------------------------------------------------
(* C21: in live-lint mode with a driver whose executable is not installed, *)
(* every query of an existing file of a supported extension throws "is not *)
(* installed" and the linter's command is never executed; the answer of    *)
(* the install check is remembered, so a later such query throws again     *)
(* without asking anew and without storing anything for the file.          *)
C21_NotInstalledIsFatal ==
    [][ ( /\ IsNone(reporter.reports)
          /\ ~reporter.driver.isInstalled
          /\ result'.op = "violations"
          /\ endsWith(result'.arg, "ts")
          /\ toUnixPath(result'.arg) \in DOMAIN files )
            => /\ result'.error = "is not installed"
               /\ \A i \in 1..Len(commands') : commands'[i].call # "execute"
               /\ reporter'.driverToolInstalled = Some(FALSE)
               /\ reporter'.violationsDict = reporter.violationsDict
               /\ toUnixPath(result'.arg) \notin DOMAIN reporter'.violationsDict
               /\ reporter.driverToolInstalled = Some(FALSE) => commands' = commands ]_vars

C21_Witness ==
    /\ IsNone(reporter.reports)
    /\ ~reporter.driver.isInstalled
    /\ files = [p \in {"a.ts"} |-> MaxLine]
    /\ "b.ts" \in DOMAIN reporter.violationsDict
    /\ result.op = "violations"
    /\ result.arg = "./a.ts"
    /\ result.error = "is not installed"
    /\ reporter.driverToolInstalled = Some(FALSE)
    /\ commands = <<[call |-> "installed", arg |-> ""]>>

----------------------------------------------------------------------------
(* XML report texts and @xmldom/xmldom's DOMParser.  A text is the         *)
(* document it holds up to its first error and the level at which the      *)
(* parser reports that error: "" for a well-formed text, "error" for an    *)
(* error the parser logs before it returns the document built so far, and  *)
(* "fatalError" for one it throws a ParseError on.                         *)
XmlText(error, doc) == [error |-> error, doc |-> doc]
ParseError == [ok |-> FALSE, error |-> "ParseError"]

(* new DOMParser().parseFromString(content, "text/xml").                   *)
parseFromString(content) ==
    IF content.error = "fatalError" THEN ParseError ELSE Return(content.doc)

(* xmlContentList.map(parseFromString) of the XmlCoverageReporter          *)
(* constructor: the documents, or the first error thrown.                  *)
RECURSIVE parseAllXmlFrom(_, _, _)
parseAllXmlFrom(xmlContentList, i, xmlRoots) ==
    IF i > Len(xmlContentList) THEN Return(xmlRoots)
    ELSE LET parsed == parseFromString(xmlContentList[i])
         IN  IF ~parsed.ok THEN parsed
             ELSE parseAllXmlFrom(xmlContentList, i + 1, Append(xmlRoots, parsed.val))

(* An <error> element of a checkstyle report with the name attribute of    *)
(* its <file>, and a <BugInstance> of a findbugs report with the           *)
(* attributes of its <SourceLine>; an attribute is None when missing, a    *)
(* line attribute a string of digits.                                      *)
CheckstyleError(name, line, message) == [name |-> name, line |-> line, message |-> message]
BugInstance(sourcepath, start, message) == [sourcepath |-> sourcepath, start |-> start, message |-> message]
QualityDocument(format, elements) == [format |-> format, elements |-> elements]

(* parseInt(element.getAttribute(...) || "0", 10).                         *)
attributeOrZero(attribute) ==
    IF IsNone(attribute) \/ Len(Get(attribute)) = 0 THEN 0 ELSE parseInt(Get(attribute))

(* The test on the line number taken as always true.                       *)
anyLine(line) == TRUE

(* line > 0 (CheckstyleDriver), start > 0 (FindbugsDriver).                *)
positiveLine(line) == line > 0

(* violationsDict[unixName].push(new Violation(line, message)).            *)
pushViolation(violationsDict, unixName, line, message) ==
    [q \in DOMAIN violationsDict \cup {unixName} |->
        IF q # unixName THEN violationsDict[q]
        ELSE IF q \in DOMAIN violationsDict
             THEN Append(violationsDict[q], Violation(line, message))
             ELSE <<Violation(line, message)>>]

(* CheckstyleDriver.parseXml and FindbugsDriver.parseXml: the loop over    *)
(* the elements from element i on.  An element without a file name, or     *)
(* whose line is not above 0, adds nothing.                                *)
RECURSIVE parseXmlFrom(_, _, _)
parseXmlFrom(xmlDoc, i, violationsDict) ==
    IF i > Len(xmlDoc.elements) THEN violationsDict
    ELSE LET element == xmlDoc.elements[i]
             name    == IF xmlDoc.format = "checkstyle" THEN element.name
                        ELSE element.sourcepath
             line    == IF xmlDoc.format = "checkstyle" THEN attributeOrZero(element.line)
                        ELSE attributeOrZero(element.start)
         IN  IF IsNone(name) \/ Get(name) = "" \/ ~positiveLine(line)
             THEN parseXmlFrom(xmlDoc, i + 1, violationsDict)
             ELSE parseXmlFrom(xmlDoc, i + 1,
                      pushViolation(violationsDict, toUnixPath(Get(name)), line, element.message))

parseXml(xmlDoc, violationsDict) == parseXmlFrom(xmlDoc, 1, violationsDict)

(* XmlQualityDriver.parseReports: a report whose parse throws is logged    *)
(* and adds nothing.                                                       *)
RECURSIVE xmlParseReportsFrom(_, _, _)
xmlParseReportsFrom(reports, i, violationsDict) ==
    IF i > Len(reports) THEN violationsDict
    ELSE LET xmlDoc == parseFromString(reports[i])
         IN  IF ~xmlDoc.ok THEN xmlParseReportsFrom(reports, i + 1, violationsDict)
             ELSE xmlParseReportsFrom(reports, i + 1, parseXml(xmlDoc.val, violationsDict))

xmlParseReports(reports) == xmlParseReportsFrom(reports, 1, <<>>)

(* The report texts given to the tools: coverage documents of a.ts, and    *)
(* checkstyle or findbugs documents of up to MaxElements elements.         *)
MaxElements == 2

TextsOf(documents) ==
    {XmlText(error, doc) : error \in {"", "error"}, doc \in documents}
        \cup {XmlText("fatalError", CHOOSE doc \in documents : TRUE)}

CoverageTexts ==
    TextsOf({XmlDocument("cobertura", lines) :
                lines \in PartialMaps({"a.ts"},
                              SUBSET {CoberturaLine(1, 0), CoberturaLine(1, 1), CoberturaLine(MaxLine, 0)})})

LineAttributes == {None, Some(<<>>), Some(<<0>>), Some(<<1>>), Some(<<MaxLine>>)}

QualityTexts(format) ==
    LET elements == IF format = "checkstyle"
                    THEN {CheckstyleError(n, l, "msg") : n \in {None, Some("a.ts")}, l \in LineAttributes}
                    ELSE {BugInstance(n, l, "msg") : n \in {None, Some("a.ts")}, l \in LineAttributes}
    IN  TextsOf({QualityDocument(format, e) : e \in SeqsUpTo(elements, MaxElements)})

(* main() of diff_cover_tool.ts before line 147 (the contents of the       *)
(* coverage files read) and of diff_quality_tool.ts (the reports read).    *)
InitXml ==
    /\ tool \in {"diff_cover", "diff_quality"}
    /\ \E texts \in SeqsUpTo(IF tool = "diff_cover" THEN CoverageTexts
                             ELSE QualityTexts("checkstyle") \cup QualityTexts("findbugs"),
                             MaxSources) \ {<<>>} :
          config = [failUnder |-> <<0>>, totalPercentFloat |-> FALSE, reports |-> texts]
    /\ reporter = [kind |-> "none"]
    /\ diff = <<>>
    /\ total_percent_float = FALSE
    /\ diff_violations_dict = None
    /\ result = [op |-> "new", arg |-> "", error |-> "", val |-> <<>>]
    /\ exit_code = None
    /\ NoGit
    /\ NoRun

(* diff_cover_tool.ts, main(): new XmlCoverageReporter(xmlRoots) inside    *)
(* try/catch; an error ends the process with status 1.                     *)
NewXmlCoverageReporter ==
    /\ tool = "diff_cover"
    /\ exit_code = None
    /\ reporter.kind = "none"
    /\ LET xmlRoots == parseAllXmlFrom(config.reports, 1, <<>>)
       IN  IF xmlRoots.ok
           THEN /\ reporter' = XmlCoverageReporter(xmlRoots.val)
                /\ result' = [op |-> "new XmlCoverageReporter", arg |-> "", error |-> "",
                              val |-> <<>>]
                /\ UNCHANGED exit_code
           ELSE /\ result' = [op |-> "new XmlCoverageReporter", arg |-> "",
                              error |-> xmlRoots.error, val |-> <<>>]
                /\ exit_code' = Some(1)
                /\ UNCHANGED reporter
    /\ UNCHANGED <<diff, total_percent_float, diff_violations_dict, tool, config, gitVars, runVars>>

(* violations(srcPath) and measuredLines(srcPath) of the reporter built.   *)
XmlViolations(srcPath) ==
    /\ reporter.kind = "XML"
    /\ reporter' = [reporter EXCEPT !._infoCache = _cacheFile(reporter, srcPath)]
    /\ result' = [op |-> "violations", arg |-> srcPath, error |-> "",
                  val |-> _cacheFile(reporter, srcPath)[srcPath][1]]
    /\ UNCHANGED <<diff, total_percent_float, diff_violations_dict, cliVars, gitVars, runVars>>

XmlMeasuredLines(srcPath) ==
    /\ reporter.kind = "XML"
    /\ reporter' = [reporter EXCEPT !._infoCache = _cacheFile(reporter, srcPath)]
    /\ result' = [op |-> "measuredLines", arg |-> srcPath, error |-> "",
                  val |-> _cacheFile(reporter, srcPath)[srcPath][2]]
    /\ UNCHANGED <<diff, total_percent_float, diff_violations_dict, cliVars, gitVars, runVars>>

(* driver.parseReports(reports) of a checkstyle or findbugs driver.        *)
XmlParseReports ==
    /\ tool = "diff_quality"
    /\ result' = [op |-> "parseReports", arg |-> "", error |-> "",
                  val |-> xmlParseReports(config.reports)]
    /\ UNCHANGED <<diff, reporter, total_percent_float, diff_violations_dict, cliVars,
                   gitVars, runVars>>

NextXml ==
    \/ NewXmlCoverageReporter
    \/ \E srcPath \in Files : XmlViolations(srcPath)
    \/ \E srcPath \in Files : XmlMeasuredLines(srcPath)
    \/ XmlParseReports

SpecXml == InitXml /\ [][NextXml]_vars

----------------------------------------------------------------------------
(* The well-formed report texts of the run, in order, and what they alone  *)
(* give.                                                                   *)
WellFormed == SelectSeq(config.reports, LAMBDA text : text.error = "")
WellFormedRoots == [i \in 1..Len(WellFormed) |-> WellFormed[i].doc]
IsSubList(short, long) ==
    \A v \in Range(short) :
        Cardinality({i \in 1..Len(short) : short[i] = v})
            <= Cardinality({i \in 1..Len(long) : long[i] = v})

(* C22: when some of several XML report sources are malformed, the run is *)
(* not aborted and what the well-formed sources contribute is still        *)
(* returned: a coverage reporter is built and answers every file with at   *)
(* least the violations and measured lines the well-formed documents       *)
(* alone give, and a quality driver's parseReports returns at least the    *)
(* violations of the well-formed reports.                                  *)
C22_MalformedSourceSkipped ==
    (Len(config.reports) > 1 /\ WellFormed # <<>> /\ Len(WellFormed) < Len(config.reports)) =>
    /\ tool = "diff_cover" =>
          /\ IsNone(exit_code)
          /\ result.error = ""
          /\ reporter.kind = "XML" =>
                \A f \in DOMAIN reporter._infoCache :
                    /\ xmlInfo(WellFormedRoots, f)[1] \subseteq reporter._infoCache[f][1]
                    /\ xmlInfo(WellFormedRoots, f)[2] \subseteq reporter._infoCache[f][2]
    /\ (tool = "diff_quality" /\ result.op = "parseReports") =>
          LET well == xmlParseReports(WellFormed)
          IN  /\ result.error = ""
              /\ \A f \in DOMAIN well :
                    f \in DOMAIN result.val /\ IsSubList(well[f], result.val[f])

(* The quality half of C22 alone.                                          *)
QualityReportsSkipped ==
    (tool = "diff_quality" /\ result.op = "parseReports") =>
        LET well == xmlParseReports(WellFormed)
        IN  \A f \in DOMAIN well : f \in DOMAIN result.val /\ IsSubList(well[f], result.val[f])

(* C23: every Violation that parseReports of the checkstyle and findbugs   *)
(* drivers returns has a line of at least 1; an element whose line is 0 or *)
(* missing adds nothing, and the other elements of its file are kept, in   *)
(* order: a file's list is made of its elements with a line above 0 from   *)
(* the reports whose parse does not throw.                                 *)
ParsedElements ==
    LET RECURSIVE Concat(_)
        Concat(i) == IF i > Len(config.reports) THEN <<>>
                     ELSE (IF config.reports[i].error = "fatalError" THEN <<>>
                           ELSE config.reports[i].doc.elements) \o Concat(i + 1)
    IN  Concat(1)
ElementName(element) == IF "name" \in DOMAIN element THEN element.name ELSE element.sourcepath
ElementLine(element) == IF "line" \in DOMAIN element THEN element.line ELSE element.start
LineValue(element) ==
    LET a == ElementLine(element)
    IN  IF a \in {None, Some(<<>>), Some(<<0>>)} THEN 0 ELSE Get(a)[1]

C23_NoLineZero ==
    (tool = "diff_quality" /\ result.op = "parseReports") =>
        /\ \A f \in DOMAIN result.val :
              \A i \in 1..Len(result.val[f]) : result.val[f][i].line >= 1
        /\ LET kept == SelectSeq(ParsedElements,
                           LAMBDA e : ElementName(e) = Some("a.ts") /\ LineValue(e) >= 1)
           IN  IF kept = <<>> THEN result.val = <<>>
               ELSE /\ DOMAIN result.val = {"a.ts"}
                    /\ result.val["a.ts"] =
                           [i \in 1..Len(kept) |-> Violation(LineValue(kept[i]), "msg")]

C23_Witness ==
    /\ tool = "diff_quality"
    /\ result.op = "parseReports"
    /\ Len(config.reports) = 1
    /\ config.reports[1].error = ""
    /\ config.reports[1].doc.format = "checkstyle"
    /\ config.reports[1].doc.elements =
           <<CheckstyleError(Some("a.ts"), Some(<<0>>), "msg"),
             CheckstyleError(Some("a.ts"), Some(<<MaxLine>>), "msg")>>
    /\ result.val = [f \in {"a.ts"} |-> <<Violation(MaxLine, "msg")>>]

----------------------------------------------------------------------------
(* C29: on a reporter that includes untracked files, linesChanged(p) of an *)
(* untracked file p that is not excluded returns 1..(number of lines of p) *)
(* whatever was called before it, srcPathsChanged() or not, since          *)
(* construction or the last clearCache().                                  *)
C29_UntrackedLinesAnyOrder ==
    ( /\ result.op = "linesChanged"
      /\ result.error = ""
      /\ _includeUntracked
      /\ toUnixPath(result.arg) \in Range(_gitDiffTool.untracked)
      /\ _validatePathToDiff(toUnixPath(result.arg)) )
        => result.val = [i \in 1..(_getFileLines(toUnixPath(result.arg))) |-> i]

----------------------------------------------------------------------------
(* A GitDiffReporter over a GitDiffTool that runs git: every request of a  *)
(* diff source and every git ls-files is an external command, and the      *)
(* working tree may change between two calls.                              *)
MaxGitCalls == 5    \* external commands after which no further call is made

(* The text of one hunk that adds line start of a file.                    *)
OneHunk(p, start) == <<GitLine(p), HunkLine(<<start>>), AddedLine>>

(* What git prints in a working tree: the committed diff (which may be a   *)
(* text that does not parse), the unstaged diff, the untracked files.      *)
WorkingTrees ==
    [ committed : {OneHunk("a.ts", 1), OneHunk("b.ts", MaxLine), <<HunkLine(<<1>>), AddedLine>>},
      staged    : {<<>>},
      unstaged  : {<<>>, OneHunk("a.ts", MaxLine)},
      untracked : {<<>>, <<"u.ts">>} ]

onTree(gitDiff, tree) ==
    [committed |-> tree.committed, staged |-> tree.staged, unstaged |-> tree.unstaged,
     untracked |-> tree.untracked, _untrackedCache |-> gitDiff._untrackedCache]

InitCache ==
    /\ \E tree \in WorkingTrees : _gitDiffTool = onTree([_untrackedCache |-> None], tree)
    /\ files \in {[q \in {"u.ts"} |-> n] : n \in 1..MaxLine}
    /\ _ignoreStaged = TRUE
    /\ _ignoreUnstaged = FALSE
    /\ _includeUntracked \in BOOLEAN
    /\ _exclude = {}
    /\ _diffDict = None
    /\ result = [op |-> "new", arg |-> "", error |-> "", val |-> <<>>]
    /\ diff = <<>>
    /\ reporter = QualityReporter(<<>>)
    /\ total_percent_float = FALSE
    /\ diff_violations_dict = None
    /\ tool = ""
    /\ config = [failUnder |-> <<0>>, totalPercentFloat |-> FALSE]
    /\ exit_code = None
    /\ NoRun

(* The commands _gitDiff runs: with nothing cached, diffCommitted and,     *)
(* unless ignored, diffStaged and diffUnstaged, all before any is parsed.  *)
diffCommands ==
    IF ~IsNone(_diffDict) THEN <<>>
    ELSE <<[call |-> "git diff", arg |-> "committed"]>>
            \o (IF ~_ignoreStaged THEN <<[call |-> "git diff", arg |-> "staged"]>> ELSE <<>>)
            \o (IF ~_ignoreUnstaged THEN <<[call |-> "git diff", arg |-> "unstaged"]>> ELSE <<>>)

(* The command untracked() runs: git ls-files when nothing is remembered.  *)
lsFilesCommands(gitDiff) ==
    IF IsNone(gitDiff._untrackedCache) THEN <<[call |-> "git ls-files", arg |-> ""]>> ELSE <<>>

(* linesChanged(srcPath) with the commands it runs.                        *)
GitLinesChanged(srcPath) ==
    /\ Len(commands) < MaxGitCalls
    /\ linesChangedCall(srcPath)
    /\ commands' = commands \o diffCommands

(* srcPathsChanged() with the commands it runs.                            *)
GitSrcPathsChanged ==
    /\ Len(commands) < MaxGitCalls
    /\ srcPathsChangedCall
    /\ commands' = commands \o diffCommands
                       \o (IF _gitDiff.ok /\ _includeUntracked
                           THEN lsFilesCommands(_gitDiffTool) ELSE <<>>)

(* gitDiffTool.untracked() called directly.                                *)
Untracked ==
    /\ Len(commands) < MaxGitCalls
    /\ _gitDiffTool' = afterUntracked(_gitDiffTool)
    /\ commands' = commands \o lsFilesCommands(_gitDiffTool)
    /\ result' = [op |-> "untracked", arg |-> "", error |-> "",
                  val |-> untracked(_gitDiffTool)]
    /\ UNCHANGED <<files, _ignoreStaged, _ignoreUnstaged, _includeUntracked, _exclude,
                   _diffDict>>
    /\ UNCHANGED <<diff, reporter, total_percent_float, diff_violations_dict, cliVars>>

(* The working tree changes under the tool: git prints other texts from    *)
(* now on, the untracked file has another length.                          *)
WorkingTreeChanges ==
    /\ \E tree \in WorkingTrees : _gitDiffTool' = onTree(_gitDiffTool, tree)
    /\ files' \in {[q \in {"u.ts"} |-> n] : n \in 1..MaxLine}
    /\ <<_gitDiffTool', files'>> # <<_gitDiffTool, files>>
    /\ UNCHANGED <<_ignoreStaged, _ignoreUnstaged, _includeUntracked, _exclude, _diffDict>>
    /\ UNCHANGED <<diff, reporter, result, total_percent_float, diff_violations_dict, cliVars,
                   runVars>>

NextCache ==
    \/ \E srcPath \in {"a.ts", "u.ts"} : GitLinesChanged(srcPath)
    \/ GitSrcPathsChanged
    \/ Untracked
    \/ WorkingTreeChanges

SpecCache == InitCache /\ [][NextCache]_vars

(* The same reporter with clearCache() among its calls.                    *)
NextClear == NextCache \/ ClearCache

SpecClear == InitCache /\ [][NextClear]_vars

----------------------------------------------------------------------------
(* How often a command was run.                                            *)
TimesRunIn(log, call, arg) ==
    Cardinality({i \in 1..Len(log) : log[i] = [call |-> call, arg |-> arg]})
TimesRun(call, arg) == TimesRunIn(commands, call, arg)

(* C24: over any calls of srcPathsChanged(), linesChanged() and            *)
(* untracked() without clearCache(), each diff source is requested at most *)
(* once and git ls-files is run at most once (after every step, no command *)
(* has run twice), and the later calls return what was computed first: the *)
(* dictionary once cached and the list once remembered are not altered.    *)
C24_CachesFilledOnce ==
    [][ /\ TimesRunIn(commands', "git diff", "committed") <= 1
        /\ TimesRunIn(commands', "git diff", "staged") <= 1
        /\ TimesRunIn(commands', "git diff", "unstaged") <= 1
        /\ TimesRunIn(commands', "git ls-files", "") <= 1
        /\ ~IsNone(_diffDict) => _diffDict' = _diffDict
        /\ ~IsNone(_gitDiffTool._untrackedCache)
               => _gitDiffTool'._untrackedCache = _gitDiffTool._untrackedCache ]_vars

(* The parts of C24: the untracked-files cache of the tool, the requests   *)
(* of the diff sources, and the cached dictionary.                         *)
LsFilesAtMostOnce ==
    [][ /\ TimesRunIn(commands', "git ls-files", "") <= 1
        /\ ~IsNone(_gitDiffTool._untrackedCache)
               => _gitDiffTool'._untrackedCache = _gitDiffTool._untrackedCache ]_vars
DiffSourcesOnceWhenParsed ==
    [][ ~IsNone(_diffDict) => /\ TimesRunIn(commands', "git diff", "committed")
                                    = TimesRun("git diff", "committed")
                              /\ TimesRunIn(commands', "git diff", "unstaged")
                                    = TimesRun("git diff", "unstaged") ]_vars
CachedDictKept == [][ ~IsNone(_diffDict) => _diffDict' = _diffDict ]_vars
CachedDictKeptButUntracked ==
    [][ ~IsNone(_diffDict) =>
            \A p \in DOMAIN Get(_diffDict) \ {"u.ts"} :
                p \in DOMAIN Get(_diffDict') /\ Get(_diffDict')[p] = Get(_diffDict)[p] ]_vars

----------------------------------------------------------------------------
(* What the collaborators give now: the diff texts git prints for the      *)
(* included sources, and the list untracked() returns (the one the tool    *)
(* remembers once it has run git ls-files).                                *)
CurrentTexts ==
    {_gitDiffTool.committed} \cup (IF _ignoreStaged THEN {} ELSE {_gitDiffTool.staged})
                             \cup (IF _ignoreUnstaged THEN {} ELSE {_gitDiffTool.unstaged})
CurrentDiffLines(p) == {l \in Lines : OneHunk(p, l) \in CurrentTexts}
CurrentDiffPaths == {p \in {"a.ts", "b.ts"} : CurrentDiffLines(p) # {}}
CurrentUntracked ==
    IF ~_includeUntracked THEN {}
    ELSE IF IsNone(_gitDiffTool._untrackedCache) THEN Range(_gitDiffTool.untracked)
    ELSE Range(Get(_gitDiffTool._untrackedCache))
CurrentLines(p) == IF p \in CurrentUntracked THEN 1..files[p] ELSE CurrentDiffLines(p)

----------------------------------------------------------------------------
(* report_generator.ts, _diffViolations over a violation reporter whose    *)
(* violations(srcPath) throws for some files (as a QualityReporter does    *)
(* for an existing file when its linter is not installed).                 *)
ThrowingReporter(dict, measured, throws) ==
    [kind |-> "mock", dict |-> dict, measured |-> measured, throws |-> throws]

throwsOn(rep, srcPath) == srcPath \in rep.throws

(* The per-file loop of the catch branch from path i on: an entry is       *)
(* written for every path until violations() throws.                       *)
RECURSIVE fallbackFrom(_, _, _, _, _)
fallbackFrom(rep, d, paths, i, dict) ==
    IF i > Len(paths) THEN [ok |-> TRUE, dict |-> dict, error |-> ""]
    ELSE LET srcPath  == paths[i]
             unixPath == toUnixPath(srcPath)
         IN  IF throwsOn(rep, srcPath)
             THEN [ok |-> FALSE, dict |-> dict, error |-> "violations throws"]
             ELSE fallbackFrom(rep, d, paths, i + 1,
                      [k \in DOMAIN dict \cup {unixPath} |->
                          IF k = unixPath
                          THEN DiffViolations(violations(rep, srcPath),
                                              measuredLines(rep, srcPath),
                                              linesChanged(d, srcPath))
                          ELSE dict[k]])

(* _diffViolations on a cache miss: _diff_violations_dict is assigned {}   *)
(* before the try; violationsBatch throws before any entry is written      *)
(* when violations() throws for one of the paths, and the catch branch     *)
(* then runs the per-file loop, whose error leaves the method.  What is    *)
(* left in _diff_violations_dict is the dictionary the loop had built.     *)
aggregate(rep, d) ==
    IF \E p \in srcPathsChanged(d) : throwsOn(rep, p)
    THEN fallbackFrom(rep, d, sortedKeys(d), 1, <<>>)
    ELSE [ok |-> TRUE, dict |-> computeDiffViolations(rep, d), error |-> ""]

(* A query of the generator: on a cache miss whose aggregation throws, the *)
(* error reaches the caller; otherwise the query answers from              *)
(* _diffViolations().                                                      *)
Querying(op, Query) ==
    IF IsNone(diff_violations_dict) /\ ~aggregate(reporter, diff).ok
    THEN /\ diff_violations_dict' = Some(aggregate(reporter, diff).dict)
         /\ result' = [op |-> op, arg |-> "", error |-> aggregate(reporter, diff).error,
                       val |-> <<>>]
         /\ UNCHANGED <<diff, reporter, total_percent_float, cliVars, gitVars, runVars>>
    ELSE Query

ThrowingReporters ==
    {ThrowingReporter(dict, [p \in Files |-> None], throws) :
        dict \in [Files -> SUBSET {Violation(l, "msg") : l \in Lines}],
        throws \in SUBSET Files}

InitThrowing ==
    /\ diff \in SmallDiffs
    /\ reporter \in ThrowingReporters
    /\ total_percent_float \in BOOLEAN
    /\ diff_violations_dict = None
    /\ result = [op |-> "new", arg |-> "", val |-> <<>>]
    /\ NoTool

QuerySrcPaths == Querying("srcPaths", SrcPaths)
QueryTotalNumLines == Querying("totalNumLines", TotalNumLines)
QueryTotalPercentCovered == Querying("totalPercentCovered", TotalPercentCovered)
QueryReportDict == Querying("reportDict", ReportDict)

NextThrowing ==
    \/ QuerySrcPaths
    \/ QueryTotalNumLines
    \/ QueryTotalPercentCovered
    \/ QueryReportDict

SpecThrowing == InitThrowing /\ [][NextThrowing]_vars

----------------------------------------------------------------------------
(* C30: on a generator whose reporter throws for one of the changed files, *)
(* the first aggregation throws to the caller and no later query returns   *)
(* statistics computed from the partly built per-file summary: every       *)
(* query made on such a generator ends with the error.                     *)
SomeChangedFileThrows == \E p \in srcPathsChanged(diff) : throwsOn(reporter, p)

C30_NoPartialStatistics ==
    (SomeChangedFileThrows /\ result.op # "new")
        => ("error" \in DOMAIN result /\ result.error # "")

(* The first part of C30 alone: the query that finds nothing cached        *)
(* throws.                                                                 *)
FirstAggregationThrows ==
    [][ (SomeChangedFileThrows /\ ~Built /\ result'.op # result.op)
            => ("error" \in DOMAIN result' /\ result'.error # "") ]_vars

----------------------------------------------------------------------------
(* C26: in live-lint mode the linter is executed at most once per file,    *)
(* also for a file it reports no violation for: when the last command run  *)
(* is the linter on a file and the query of that file returned, a later    *)
(* query of the same file runs no command and returns the same list.       *)
LintedAndReturned ==
    /\ IsNone(reporter.reports)
    /\ result.op = "violations"
    /\ result.error = ""
    /\ commands # <<>>
    /\ commands[Len(commands)] =
          [call |-> "execute", arg |-> toUnixPath(relativePath(result.arg))]

SameFileQueried ==
    /\ result'.op = "violations"
    /\ toUnixPath(relativePath(result'.arg)) = toUnixPath(relativePath(result.arg))

C26_LinterRunOncePerFile ==
    [][ (LintedAndReturned /\ SameFileQueried)
            => /\ commands' = commands
               /\ result'.error = ""
               /\ result'.val = result.val ]_vars

(* The part of C26 that holds: a file the linter printed a violation for   *)
(* is answered from violationsDict.                                        *)
LintedWithViolationsRunOnce ==
    [][ (LintedAndReturned /\ result.val # {} /\ SameFileQueried)
            => /\ commands' = commands
               /\ result'.error = ""
               /\ result'.val = result.val ]_vars

----------------------------------------------------------------------------
(* The parser on a diff of two file sections: a section is the header      *)
(* "diff --git" or "diff --cc" of a.ts or b.ts, the lines git prints       *)
(* before the first hunk ("index ...", "--- a/<p>", "+++ b/<p>") or none,  *)
(* and at most one hunk.  The first section has a hunk, so that it is      *)
(* open when the second header is read.                                    *)
MaxSectionBody == 2   \* longest hunk body of a section, in lines

SectionBodies == SeqsUpTo({AddedLine, DeletedLine, OtherLine}, MaxSectionBody)

SectionHunks == { <<HunkLine(<<start>>)>> \o body : start \in {1, 3}, body \in SectionBodies }

SectionTexts ==
    { <<GitLine("a.ts")>> \o pre1 \o hunk1 \o <<header2>> \o pre2 \o hunk2 :
        pre1 \in FileHeaders, hunk1 \in SectionHunks,
        header2 \in {GitLine("a.ts"), GitLine("b.ts"), CcLine("a.ts"), CcLine("b.ts")},
        pre2 \in FileHeaders, hunk2 \in SectionHunks \cup {<<>>} }

InitSections ==
    /\ \E text \in SectionTexts :
          _gitDiffTool = [committed |-> text, staged |-> <<>>, unstaged |-> <<>>,
                          untracked |-> <<>>, _untrackedCache |-> None]
    /\ files = <<>>
    /\ _ignoreStaged = FALSE
    /\ _ignoreUnstaged = FALSE
    /\ _includeUntracked = FALSE
    /\ _exclude = {}
    /\ _diffDict = None
    /\ result = [op |-> "new", arg |-> "", val |-> <<>>]
    /\ diff = <<>>
    /\ reporter = QualityReporter(<<>>)
    /\ total_percent_float = FALSE
    /\ diff_violations_dict = None
    /\ tool = ""
    /\ config = [failUnder |-> <<0>>, totalPercentFloat |-> FALSE]
    /\ exit_code = None
    /\ NoRun

NextSections == ParseDiffStr

SpecSections == InitSections /\ [][NextSections]_vars

----------------------------------------------------------------------------
(* C27: a file header closes the hunk that was open.  Said of the text     *)
(* line by line: a "+" or "-" line is recorded exactly when a hunk header  *)
(* lies between the most recent file header and the line; it is recorded   *)
(* under the path of that file header, with the number counted from that   *)
(* hunk header.                                                            *)
IsHeader(line) == line.kind \in {"diff --git", "diff --cc"}

(* The most recent file header before line j, and the most recent hunk     *)
(* header (0 when there is none after that file header).                   *)
HeaderBefore(text, j) == CHOOSE h \in 1..j : IsHeader(text[h]) /\ \A k \in (h+1)..j : ~IsHeader(text[k])

HunkBefore(text, j) ==
    LET opened == {k \in (HeaderBefore(text, j) + 1)..(j - 1) : text[k].kind = "@@"}
    IN  IF opened = {} THEN 0 ELSE CHOOSE k \in opened : \A m \in opened : m <= k

(* The number the line j of a hunk has on the side that skips the lines    *)
(* of the other kind.                                                      *)
NumberIn(text, j, other) ==
    parseInt(Get(text[HunkBefore(text, j)].plus))
        + Cardinality({k \in (HunkBefore(text, j) + 1)..(j - 1) : text[k].kind # other})

(* The lines of a kind the text has for a path, in the order of the text.  *)
RecordedAt(text, path, kind) ==
    {j \in 1..Len(text) : /\ text[j].kind = kind
                          /\ text[HeaderBefore(text, j)].path = path
                          /\ HunkBefore(text, j) # 0}

NumbersOf(text, path, kind, other) ==
    LET at == RecordedAt(text, path, kind)
    IN  [n \in 1..Cardinality(at) |->
            NumberIn(text, CHOOSE j \in at : Cardinality({k \in at : k < j}) = n - 1, other)]

C27_HeaderClosesHunk ==
    result.op = "_parseDiffStr" =>
        LET text == _gitDiffTool.committed
        IN  /\ result.val.ok
            /\ DOMAIN result.val.val = {text[h].path : h \in {k \in 1..Len(text) : IsHeader(text[k])}}
            /\ \A path \in DOMAIN result.val.val :
                  result.val.val[path] = << NumbersOf(text, path, "+", "-"),
                                            NumbersOf(text, path, "-", "+") >>

(* The hunk of a.ts is open when the header of a.ts comes again, followed  *)
(* by "--- a/a.ts" and "+++ b/a.ts" and a hunk of its own.                 *)
C27_Witness ==
    /\ result.op = "_parseDiffStr"
    /\ _gitDiffTool.committed =
          << GitLine("a.ts"), HunkLine(<<1>>), AddedLine, OtherLine,
             GitLine("a.ts"), OtherLine, DeletedLine, AddedLine,
             HunkLine(<<3>>), AddedLine >>
    /\ result.val = Return([p \in {"a.ts"} |-> << <<1, 3>>, <<>> >>])

----------------------------------------------------------------------------
(* _snippetRanges on violation lines that may lie outside the file: line   *)
(* 0 and the line after the last one among them.                           *)
MaxRangeLines == 12   \* longest source file of these inputs, in lines

RangeInputs ==
    {SnippetInput(n, V) :
        n \in 0..MaxRangeLines,
        V \in {W \in SUBSET (0..(MaxRangeLines + 1)) : Cardinality(W) <= MaxViolations}}

InitRanges ==
    /\ \E in \in RangeInputs :
          /\ files = in.files
          /\ diff = in.diff
          /\ reporter = in.reporter
    /\ total_percent_float = FALSE
    /\ diff_violations_dict = None
    /\ result = [op |-> "new", arg |-> "", val |-> <<>>]
    /\ tool = ""
    /\ config = [failUnder |-> <<0>>, totalPercentFloat |-> FALSE]
    /\ exit_code = None
    /\ _gitDiffTool = [committed |-> <<>>, staged |-> <<>>, unstaged |-> <<>>,
                       untracked |-> <<>>, _untrackedCache |-> None]
    /\ _ignoreStaged = FALSE
    /\ _ignoreUnstaged = FALSE
    /\ _includeUntracked = FALSE
    /\ _exclude = {}
    /\ _diffDict = None
    /\ NoRun

NextRanges == \E srcPath \in {"a.ts"} : LoadSnippets(srcPath)

SpecRanges == InitRanges /\ [][NextRanges]_vars

(* C28: every snippet range lies within the file, 1 <= start <= end <=     *)
(* totalLines; every violation line of 1..totalLines is inside a range;    *)
(* and when no violation line is in 1..totalLines there is no range.       *)
ViolationsInside == {v \in diff["a.ts"] : 1 <= v /\ v <= TotalLines}

C28_RangesWithinFile ==
    Loaded =>
        /\ \A i \in 1..Len(Ranges) :
               /\ 1 <= Ranges[i][1]
               /\ Ranges[i][1] <= Ranges[i][2]
               /\ Ranges[i][2] <= TotalLines
        /\ \A v \in ViolationsInside : \E i \in 1..Len(Ranges) : Within(v, Ranges[i])
        /\ ViolationsInside = {} => Ranges = <<>>

C28_Witness ==
    /\ Loaded
    /\ TotalLines = 12
    /\ diff["a.ts"] = {0, 1, 12}
    /\ Ranges = << <<1, 6>>, <<8, 12>> >>

(* Violation lines outside the file alone give no range.                   *)
C28_OutsideWitness ==
    /\ Loaded
    /\ TotalLines = 12
    /\ diff["a.ts"] = {0, 13}
    /\ Ranges = <<>>

====
